---- MODULE Spec2Model ----
(***************************************************************************)
(* A model of the compiler front end: the lexer (src/src/lexer), the       *)
(* recursive-descent parser (src/src/parser), the type system and the      *)
(* semantic analyzer (src/src/semantic).  Identifiers that are Chinese in  *)
(* the source carry the English name the source gives in its comments:     *)
(* the token types are INTEGER, FLOAT, ..., the primitive kinds are Int,   *)
(* Float, String, Bool, Void and Unknown.                                  *)
(***************************************************************************)
EXTENDS Integers, Sequences, FiniteSets, TLC

VARIABLES
    source,      \* Lexer.source: the characters, a sequence of one-character strings
    position,    \* Lexer.position (0-based)
    line,        \* Lexer.line
    column,      \* Lexer.column
    tokens,      \* the list tokenize builds; Parser.tokens
    lexpc,       \* where tokenize is: "idle", "run", "done", "LexerError", "ValueError"
    current,     \* Parser.current: index of the current token (0-based)
    statements,  \* the statement list Parser.parse builds
    parsepc,     \* where parse is: "idle", "start", "loop", "done", "ParserError"
    recoveries,  \* every synchronize call so far: [start, stop] cursor pairs
    typeq,       \* the type-system query being evaluated
    typepc,      \* "idle", "ask", "answered"
    analyzer,    \* the semantic analyzer object
    next_statement,  \* index of the statement visit_program visits next
    analyzepc,   \* where analyze is: "idle", "new", "visit", "done", "RecursionError"
    scope_manager,  \* a scope manager object driven through its own methods
    scope_call,  \* the last call made on scope_manager: its arguments, result and the manager before
    second       \* a second analyzer instance given the same AST: analyzer, index and pc

vars == <<source, position, line, column, tokens, lexpc,
          current, statements, parsepc, recoveries, typeq, typepc,
          analyzer, next_statement, analyzepc, scope_manager, scope_call, second>>

lexVars == <<source, position, line, column, lexpc>>
parseVars == <<current, statements, parsepc, recoveries>>
typeVars == <<typeq, typepc>>
semVars == <<analyzer, next_statement, analyzepc>>
scopeVars == <<scope_manager, scope_call>>
otherVars == <<scope_manager, scope_call, second>>

(***************************************************************************)
(* Bounds of the model.                                                    *)
(***************************************************************************)
MaxSrcLen == 3      \* longest source drawn from SrcAlphabet
MaxTokens == 4      \* longest token sequence drawn from ParseAlphabet
MaxOps == 3         \* most operators in an operand/operator chain
MaxParameters == 2  \* most parameters of a function in an analysed source
MaxArity == 1       \* most parameters of a function type in a type query
MaxDepth == 2       \* most scopes on the stack of the scope manager driven alone
MaxCalls == 6       \* most calls made on the scope manager driven alone
MaxRepeats == 2     \* most calls of next_token after it has returned EndOfFile

(***************************************************************************)
(* Characters.  A character is a one-character string; "sup2" stands for   *)
(* U+00B2 (superscript two), a character for which str.isdigit() is true   *)
(* and int() raises ValueError.  NoChar is current_char = None.            *)
(***************************************************************************)
NoChar == ""

AsciiDigits == {"0", "1", "2", "3", "4", "5", "6", "7", "8", "9"}

Letters == {"a", "b", "c", "d", "e", "f", "g", "h", "i", "j", "k", "l", "m",
            "n", "o", "p", "q", "r", "s", "t", "u", "v", "w", "x", "y", "z",
            "S"}

IsDigit(ch) == ch \in AsciiDigits \cup {"sup2"}

IsAlpha(ch) == ch \in Letters

IsAlnum(ch) == IsAlpha(ch) \/ IsDigit(ch)

IsSpace(ch) == ch \in {" ", "\t", "\n", "\r"}

DigitValue(ch) ==
    CASE ch = "0" -> 0 [] ch = "1" -> 1 [] ch = "2" -> 2 [] ch = "3" -> 3
      [] ch = "4" -> 4 [] ch = "5" -> 5 [] ch = "6" -> 6 [] ch = "7" -> 7
      [] ch = "8" -> 8 [] ch = "9" -> 9

(***************************************************************************)
(* Token values.  Python's token value is an int, a float, a str, a bool   *)
(* or None; here it is a record tagged with which of them it is.           *)
(***************************************************************************)
IntV(n) == [k |-> "int", n |-> n, s |-> "", b |-> FALSE]
FloatV(text) == [k |-> "float", n |-> 0, s |-> text, b |-> FALSE]
StrV(s) == [k |-> "str", n |-> 0, s |-> s, b |-> FALSE]
BoolV(b) == [k |-> "bool", n |-> 0, s |-> "", b |-> b]
NoneV == [k |-> "none", n |-> 0, s |-> "", b |-> FALSE]

Token(type, value, l, c) == [type |-> type, value |-> value, line |-> l, column |-> c]

KEYWORDS(identifier) ==
    CASE identifier = "func" -> "FUNCTION"
      [] identifier = "return" -> "RETURN"
      [] identifier = "if" -> "IF"
      [] identifier = "else" -> "ELSE"
      [] identifier = "while" -> "WHILE"
      [] identifier = "for" -> "FOR"
      [] identifier = "true" -> "TRUE"
      [] identifier = "false" -> "FALSE"
      [] identifier = "null" -> "NULL"
      [] OTHER -> "IDENTIFIER"

(***************************************************************************)
(* The lexer.  A cursor is [position, line, column]; current_char is the   *)
(* character at position, or NoChar past the end.                          *)
(***************************************************************************)
Cursor(p, l, c) == [position |-> p, line |-> l, column |-> c]

CurrentChar(st) ==
    IF st.position >= Len(source) THEN NoChar ELSE source[st.position + 1]

Peek(st) ==
    IF st.position + 1 >= Len(source) THEN NoChar ELSE source[st.position + 2]

Advance(st) ==
    IF CurrentChar(st) = "\n"
    THEN Cursor(st.position + 1, st.line + 1, 1)
    ELSE Cursor(st.position + 1, st.line, st.column + 1)

RECURSIVE SkipWhitespace(_)
SkipWhitespace(st) ==
    LET ch == CurrentChar(st) IN
    IF ch # NoChar /\ IsSpace(ch) /\ ch # "\n"
    THEN SkipWhitespace(Advance(st))
    ELSE st

RECURSIVE SkipToLineEnd(_)
SkipToLineEnd(st) ==
    LET ch == CurrentChar(st) IN
    IF ch # NoChar /\ ch # "\n" THEN SkipToLineEnd(Advance(st)) ELSE st

SkipLineComment(st) == SkipToLineEnd(Advance(Advance(st)))

\* The scanning loop of read_number: digits and at most one '.'.
RECURSIVE ScanNumber(_, _, _)
ScanNumber(st, number_str, has_dot) ==
    LET ch == CurrentChar(st) IN
    IF ch # NoChar /\ (IsDigit(ch) \/ ch = ".")
    THEN IF ch = "." /\ has_dot
         THEN [st |-> st, number_str |-> number_str, has_dot |-> has_dot]
         ELSE ScanNumber(Advance(st), Append(number_str, ch),
                         has_dot \/ ch = ".")
    ELSE [st |-> st, number_str |-> number_str, has_dot |-> has_dot]

\* int(number_str) for a run of ASCII digits.
RECURSIVE IntOf(_)
IntOf(digits) ==
    IF digits = <<>> THEN 0
    ELSE IntOf(SubSeq(digits, 1, Len(digits) - 1)) * 10
         + DigitValue(digits[Len(digits)])

RECURSIVE Join(_)
Join(chars) == IF chars = <<>> THEN "" ELSE chars[1] \o Join(Tail(chars))

\* int() and float() raise ValueError on a digit that is not a decimal digit.
Convertible(number_str) ==
    \A i \in 1..Len(number_str) : number_str[i] \in AsciiDigits \cup {"."}

ReadNumber(st) ==
    LET scan == ScanNumber(st, <<>>, FALSE)
        dangling == scan.number_str # <<>>
                    /\ scan.number_str[Len(scan.number_str)] = "."
        \* a dangling dot is given back: position and column step back by one
        endst == IF dangling
                 THEN Cursor(scan.st.position - 1, scan.st.line, scan.st.column - 1)
                 ELSE scan.st
        number_str == IF dangling
                      THEN SubSeq(scan.number_str, 1, Len(scan.number_str) - 1)
                      ELSE scan.number_str
        has_dot == IF dangling THEN FALSE ELSE scan.has_dot
    IN  IF ~Convertible(number_str)
        THEN [status |-> "ValueError", tok |-> Token("ERROR", NoneV, st.line, st.column),
              st |-> endst]
        ELSE IF has_dot
        THEN [status |-> "ok",
              tok |-> Token("FLOAT", FloatV(Join(number_str)), st.line, st.column),
              st |-> endst]
        ELSE [status |-> "ok",
              tok |-> Token("INTEGER", IntV(IntOf(number_str)), st.line, st.column),
              st |-> endst]

EscapeChar(ch) ==
    CASE ch = "n" -> "\n"
      [] ch = "t" -> "\t"
      [] ch = "r" -> "\r"
      [] OTHER -> ch

\* The scanning loop of read_string, after the opening quote.
RECURSIVE ScanString(_, _, _)
ScanString(st, quote_char, string_value) ==
    LET ch == CurrentChar(st) IN
    IF ch # NoChar /\ ch # quote_char
    THEN IF ch = "\\"
         THEN LET st2 == Advance(st) IN
              IF CurrentChar(st2) = NoChar
              THEN [status |-> "LexerError", st |-> st2, string_value |-> string_value]
              ELSE ScanString(Advance(st2), quote_char,
                              string_value \o EscapeChar(CurrentChar(st2)))
         ELSE ScanString(Advance(st), quote_char, string_value \o ch)
    ELSE [status |-> "ok", st |-> st, string_value |-> string_value]

\* a read_string that gives the token whether or not the quote was closed
ReadStringUnchecked(st) ==
    LET scan == ScanString(Advance(st), CurrentChar(st), "") IN
    [status |-> "ok",
     tok |-> Token("STRING", StrV(scan.string_value), st.line, st.column),
     st |-> Advance(scan.st)]

ReadString(st) ==
    LET quote_char == CurrentChar(st)
        scan == ScanString(Advance(st), quote_char, "")
    IN  IF scan.status # "ok" \/ CurrentChar(scan.st) # quote_char
        THEN [status |-> "LexerError", tok |-> Token("ERROR", NoneV, st.line, st.column),
              st |-> scan.st]
        ELSE [status |-> "ok",
              tok |-> Token("STRING", StrV(scan.string_value), st.line, st.column),
              st |-> Advance(scan.st)]

RECURSIVE ScanIdentifier(_, _)
ScanIdentifier(st, identifier) ==
    LET ch == CurrentChar(st) IN
    IF ch # NoChar /\ (IsAlnum(ch) \/ ch = "_")
    THEN ScanIdentifier(Advance(st), identifier \o ch)
    ELSE [st |-> st, identifier |-> identifier]

ReadIdentifier(st) ==
    LET scan == ScanIdentifier(st, "")
        token_type == KEYWORDS(scan.identifier)
        value == CASE token_type = "TRUE" -> BoolV(TRUE)
                   [] token_type = "FALSE" -> BoolV(FALSE)
                   [] token_type = "NULL" -> NoneV
                   [] OTHER -> StrV(scan.identifier)
        type == IF token_type \in {"TRUE", "FALSE", "NULL"} THEN "BOOLEAN" ELSE token_type
    IN  [status |-> "ok", tok |-> Token(type, value, st.line, st.column), st |-> scan.st]

TwoCharOperators ==
    {<<"=", "=", "EQUAL">>, <<"!", "=", "NOT_EQUAL">>, <<"<", "=", "LESS_EQUAL">>,
     <<">", "=", "GREATER_EQUAL">>, <<"&", "&", "AND">>, <<"|", "|", "OR">>}

SingleCharTokens(ch) ==
    CASE ch = "+" -> "PLUS" [] ch = "-" -> "MINUS" [] ch = "*" -> "MULTIPLY"
      [] ch = "/" -> "DIVIDE" [] ch = "%" -> "MODULO" [] ch = "=" -> "ASSIGN"
      [] ch = "<" -> "LESS_THAN" [] ch = ">" -> "GREATER_THAN" [] ch = "!" -> "NOT"
      [] ch = "(" -> "LEFT_PAREN" [] ch = ")" -> "RIGHT_PAREN"
      [] ch = "{" -> "LEFT_BRACE" [] ch = "}" -> "RIGHT_BRACE"
      [] ch = "[" -> "LEFT_BRACKET" [] ch = "]" -> "RIGHT_BRACKET"
      [] ch = ";" -> "SEMICOLON" [] ch = "," -> "COMMA" [] ch = "." -> "DOT"
      [] OTHER -> "ERROR"

\* next_token: the while loop with its continue after whitespace and comments.
RECURSIVE NextToken(_)
NextToken(st) ==
    LET ch == CurrentChar(st)
        two == {t \in TwoCharOperators : t[1] = ch /\ t[2] = Peek(st)}
    IN  IF ch = NoChar
        THEN [status |-> "ok", tok |-> Token("EOF", NoneV, st.line, st.column), st |-> st]
        ELSE IF IsSpace(ch) /\ ch # "\n" THEN NextToken(SkipWhitespace(st))
        ELSE IF ch = "\n"
        THEN [status |-> "ok", tok |-> Token("NEWLINE", StrV("\n"), st.line, st.column),
              st |-> Advance(st)]
        ELSE IF IsDigit(ch) THEN ReadNumber(st)
        ELSE IF ch \in {"\"", "'"} THEN ReadString(st)
        ELSE IF IsAlpha(ch) \/ ch = "_" THEN ReadIdentifier(st)
        ELSE IF ch = "/" /\ Peek(st) = "/" THEN NextToken(SkipLineComment(st))
        ELSE IF two # {}
        THEN LET t == CHOOSE t \in two : TRUE IN
             [status |-> "ok",
              tok |-> Token(t[3], StrV(t[1] \o t[2]), st.line, st.column),
              st |-> Advance(Advance(st))]
        ELSE [status |-> "ok",
              tok |-> Token(SingleCharTokens(ch), StrV(ch), st.line, st.column),
              st |-> Advance(st)]

\* A loop of tokenize that also stops at the end of a line.
IsEndOfFileOrLine(tok) == tok.type \in {"EOF", "NEWLINE"}

\* The loop of tokenize stops on the first EndOfFile token.
IsEndOfFile(tok) == tok.type = "EOF"

(***************************************************************************)
(* The type system (src/src/semantic/types.py).  A type is a primitive     *)
(* [kind |-> "prim", v |-> kind] or a function type; NoType is the None a  *)
(* rule returns when the operand types do not fit.                         *)
(***************************************************************************)
Prim(v) == [kind |-> "prim", v |-> v]
FuncType(params, ret) == [kind |-> "func", params |-> params, ret |-> ret]
NoType == [kind |-> "none"]

IntType == Prim("Int")
FloatType == Prim("Float")
StringType == Prim("String")
BoolType == Prim("Bool")
VoidType == Prim("Void")
UnknownType == Prim("Unknown")

PrimKinds == {"Int", "Float", "String", "Bool", "Void", "Unknown"}

IsPrim(t) == t.kind = "prim"
IsFunc(t) == t.kind = "func"

IsNumeric(t) == IsPrim(t) /\ t.v \in {"Int", "Float"}

RECURSIVE IsCompatibleWith(_, _)

\* is_compatible_with with an escape for Unknown on either side.
IsCompatibleWithUnknownEscape(self, other) ==
    IF IsPrim(self)
    THEN IF IsPrim(other)
         THEN IF IsNumeric(self) /\ IsNumeric(other) THEN TRUE
              ELSE self.v = other.v \/ "Unknown" \in {self.v, other.v}
         ELSE self.v = "Unknown"
    ELSE IF IsFunc(other)
         THEN IF Len(self.params) # Len(other.params) THEN FALSE
              ELSE /\ \A i \in 1..Len(self.params) :
                        IsCompatibleWith(self.params[i], other.params[i])
                   /\ IsCompatibleWith(self.ret, other.ret)
         ELSE IsPrim(other) /\ other.v = "Unknown"

IsCompatibleWith(self, other) ==
    IF IsPrim(self)
    THEN IF IsPrim(other)
         THEN IF IsNumeric(self) /\ IsNumeric(other) THEN TRUE
              ELSE self.v = other.v
         ELSE FALSE
    ELSE IF IsFunc(other)
         THEN IF Len(self.params) # Len(other.params) THEN FALSE
              ELSE /\ \A i \in 1..Len(self.params) :
                        IsCompatibleWith(self.params[i], other.params[i])
                   /\ IsCompatibleWith(self.ret, other.ret)
         ELSE FALSE

IsAssignableFrom(self, other) ==
    IF IsPrim(self)
    THEN IF IsPrim(other)
         THEN IF self.v = "Float" /\ other.v = "Int" THEN TRUE
              ELSE self.v = other.v
         ELSE FALSE
    ELSE IsCompatibleWith(self, other)

CheckAssignment(target_type, value_type) == IsAssignableFrom(target_type, value_type)

InferLiteralType(token_type, value) ==
    IF token_type = "INTEGER" THEN IntType
    ELSE IF token_type = "FLOAT" THEN FloatType
    ELSE IF token_type = "STRING" THEN StringType
    ELSE IF token_type = "BOOLEAN" THEN BoolType
    ELSE IF value.k = "none" THEN VoidType
    ELSE UnknownType

\* The arithmetic rule without the case for Unknown: an operand of Unknown type
\* counts as an Int.
ArithmeticRuleUnknownAsInt(left_type, right_type) ==
    IF IsPrim(left_type) /\ IsPrim(right_type)
    THEN IF left_type.v \in {"Int", "Float", "Unknown"}
            /\ right_type.v \in {"Int", "Float", "Unknown"}
         THEN IF left_type.v = "Float" \/ right_type.v = "Float"
              THEN FloatType ELSE IntType
         ELSE IF left_type.v = "String" /\ right_type.v = "String" THEN StringType
         ELSE NoType
    ELSE NoType

ArithmeticRule(left_type, right_type) ==
    IF IsPrim(left_type) /\ IsPrim(right_type)
    THEN IF left_type.v = "Unknown" \/ right_type.v = "Unknown" THEN UnknownType
         ELSE IF IsNumeric(left_type) /\ IsNumeric(right_type)
         THEN IF left_type.v = "Float" \/ right_type.v = "Float"
              THEN FloatType ELSE IntType
         ELSE IF left_type.v = "String" /\ right_type.v = "String" THEN StringType
         ELSE NoType
    ELSE NoType

ComparisonRule(left_type, right_type) ==
    IF IsPrim(left_type) /\ IsPrim(right_type)
    THEN IF left_type.v = "Unknown" \/ right_type.v = "Unknown" THEN BoolType
         ELSE IF IsNumeric(left_type) /\ IsNumeric(right_type) THEN BoolType
         ELSE IF left_type.v = right_type.v THEN BoolType
         ELSE NoType
    ELSE NoType

LogicalRule(left_type, right_type) ==
    IF IsPrim(left_type) /\ IsPrim(right_type)
    THEN IF left_type.v = "Unknown" \/ right_type.v = "Unknown" THEN BoolType
         ELSE IF left_type.v = "Bool" /\ right_type.v = "Bool" THEN BoolType
         ELSE NoType
    ELSE NoType

UnaryMinusRule(operand_type) ==
    IF IsPrim(operand_type)
    THEN IF operand_type.v = "Unknown" THEN UnknownType
         ELSE IF IsNumeric(operand_type) THEN operand_type
         ELSE NoType
    ELSE NoType

UnaryNotRule(operand_type) ==
    IF IsPrim(operand_type)
    THEN IF operand_type.v \in {"Unknown", "Bool"} THEN BoolType ELSE NoType
    ELSE NoType

ArithmeticOps == {"PLUS", "MINUS", "MULTIPLY", "DIVIDE", "MODULO"}
ComparisonOps == {"EQUAL", "NOT_EQUAL", "LESS_THAN", "GREATER_THAN",
                  "LESS_EQUAL", "GREATER_EQUAL"}
LogicalOps == {"AND", "OR"}

CheckBinaryOperation(left_type, operator, right_type) ==
    IF operator \in ArithmeticOps THEN ArithmeticRule(left_type, right_type)
    ELSE IF operator \in ComparisonOps THEN ComparisonRule(left_type, right_type)
    ELSE IF operator \in LogicalOps THEN LogicalRule(left_type, right_type)
    ELSE NoType

CheckUnaryOperation(operator, operand_type) ==
    IF operator = "MINUS" THEN UnaryMinusRule(operand_type)
    ELSE IF operator = "NOT" THEN UnaryNotRule(operand_type)
    ELSE NoType

(***************************************************************************)
(* The AST (src/src/ast).  A node is a record with its kind; NoNode is a   *)
(* None where the source has Optional[...].                                *)
(***************************************************************************)
NoNode == [kind |-> "None"]

LiteralNode(tok) ==
    [kind |-> "Literal", type |-> tok.type, value |-> tok.value,
     line |-> tok.line, column |-> tok.column]

IdentifierNode(tok) ==
    [kind |-> "Identifier", name |-> tok.value.s, line |-> tok.line, column |-> tok.column]

BinaryNode(left, operator, right) ==
    [kind |-> "Binary", left |-> left, operator |-> operator, right |-> right,
     line |-> operator.line, column |-> operator.column]

UnaryNode(operator, operand) ==
    [kind |-> "Unary", operator |-> operator, operand |-> operand,
     line |-> operator.line, column |-> operator.column]

CallNode(callee, arguments, l, c) ==
    [kind |-> "Call", callee |-> callee, arguments |-> arguments, line |-> l, column |-> c]

AssignmentNode(target, value, l, c) ==
    [kind |-> "Assignment", target |-> target, value |-> value, line |-> l, column |-> c]

ExpressionStatementNode(expression) ==
    [kind |-> "ExpressionStatement", expression |-> expression,
     line |-> expression.line, column |-> expression.column]

FunctionDeclarationNode(name, parameters, body, l, c) ==
    [kind |-> "FunctionDeclaration", name |-> name, parameters |-> parameters,
     body |-> body, line |-> l, column |-> c]

ReturnNode(value, l, c) == [kind |-> "Return", value |-> value, line |-> l, column |-> c]

IfNode(condition, then_branch, else_branch, l, c) ==
    [kind |-> "If", condition |-> condition, then_branch |-> then_branch,
     else_branch |-> else_branch, line |-> l, column |-> c]

WhileNode(condition, body, l, c) ==
    [kind |-> "While", condition |-> condition, body |-> body, line |-> l, column |-> c]

BlockNode(stmts, l, c) == [kind |-> "Block", statements |-> stmts, line |-> l, column |-> c]

(***************************************************************************)
(* The precedence table (src/src/parser/precedence.py): binding power and  *)
(* associativity per operator token; 0 and "none" for any other token.     *)
(***************************************************************************)
Precedence(token_type) ==
    CASE token_type = "ASSIGN" -> 1
      [] token_type = "OR" -> 2
      [] token_type = "AND" -> 3
      [] token_type \in {"EQUAL", "NOT_EQUAL"} -> 4
      [] token_type \in {"LESS_THAN", "GREATER_THAN", "LESS_EQUAL", "GREATER_EQUAL"} -> 5
      [] token_type \in {"PLUS", "MINUS"} -> 6
      [] token_type \in {"MULTIPLY", "DIVIDE", "MODULO"} -> 7
      [] token_type = "NOT" -> 8
      [] OTHER -> 0

Associativity(token_type) ==
    CASE token_type \in {"ASSIGN", "NOT"} -> "right"
      [] token_type \in {"OR", "AND", "EQUAL", "NOT_EQUAL", "LESS_THAN", "GREATER_THAN",
                         "LESS_EQUAL", "GREATER_EQUAL", "PLUS", "MINUS", "MULTIPLY",
                         "DIVIDE", "MODULO"} -> "left"
      [] OTHER -> "none"

(***************************************************************************)
(* The parser (src/src/parser/parser.py).  A parsing function takes the    *)
(* cursor and returns [ok, node, cur, msg, syncs]: ok = FALSE is a raised  *)
(* ParserError with its message, cur the cursor it leaves, and syncs the   *)
(* synchronize calls made by the parse_statement calls inside it.          *)
(***************************************************************************)
Ok(node, cur, syncs) ==
    [ok |-> TRUE, node |-> node, cur |-> cur, msg |-> "", syncs |-> syncs]

Raise(msg, cur, syncs) ==
    [ok |-> FALSE, node |-> NoNode, cur |-> cur, msg |-> msg, syncs |-> syncs]

PeekToken(cur) == IF cur >= Len(tokens) THEN tokens[Len(tokens)] ELSE tokens[cur + 1]

AdvanceToken(cur) == IF cur < Len(tokens) THEN cur + 1 ELSE cur

Match(cur, token_types) == PeekToken(cur).type \in token_types

AtEnd(cur) == PeekToken(cur).type = "EOF"

RECURSIVE SkipNewlines(_)
SkipNewlines(cur) ==
    IF Match(cur, {"NEWLINE"}) THEN SkipNewlines(AdvanceToken(cur)) ELSE cur

StatementStarts == {"FUNCTION", "IF", "WHILE", "RETURN"}

\* The loop of synchronize, after its first advance.
RECURSIVE SynchronizeLoop(_)
SynchronizeLoop(cur) ==
    IF AtEnd(cur) THEN cur
    ELSE IF tokens[IF cur = 0 THEN Len(tokens) ELSE cur].type = "SEMICOLON" THEN cur
    ELSE IF PeekToken(cur).type \in StatementStarts THEN cur
    ELSE SynchronizeLoop(AdvanceToken(cur))

\* a synchronize without its first advance
SynchronizeFromCurrent(cur) == SynchronizeLoop(cur)

Synchronize(cur) == SynchronizeLoop(AdvanceToken(cur))

BinaryLevels ==
    <<"logical_or", "logical_and", "equality", "comparison", "addition", "multiplication">>

LevelOperators(level) ==
    CASE level = "logical_or" -> {"OR"}
      [] level = "logical_and" -> {"AND"}
      [] level = "equality" -> {"EQUAL", "NOT_EQUAL"}
      [] level = "comparison" -> {"GREATER_THAN", "GREATER_EQUAL", "LESS_THAN", "LESS_EQUAL"}
      [] level = "addition" -> {"PLUS", "MINUS"}
      [] level = "multiplication" -> {"MULTIPLY", "DIVIDE", "MODULO"}

RECURSIVE ParseExpression(_), ParseAssignment(_), ParseBinaryLeft(_, _),
          BinaryLeftLoop(_, _), NextPrecedence(_, _), ParseUnary(_), ParseCall(_),
          CallLoop(_), FinishCall(_, _), ArgumentLoop(_, _, _, _), ParsePrimary(_)

(***************************************************************************)
(* A function that calls another and goes on with what it returns is two   *)
(* operators here: the one with the function's name makes the call, and    *)
(* the one it hands the result to is the rest of the function.             *)
(***************************************************************************)

\* parse_primary after the expression in parentheses: consume(RIGHT_PAREN)
CloseParen(expr) ==
    IF expr.ok
    THEN IF Match(expr.cur, {"RIGHT_PAREN"})
         THEN Ok(expr.node, AdvanceToken(expr.cur), <<>>)
         ELSE Raise("expect ')'", expr.cur, <<>>)
    ELSE expr

ParsePrimary(cur) ==
    CASE Match(cur, {"TRUE", "FALSE", "NULL"}) ->
            Ok(LiteralNode(PeekToken(cur)), AdvanceToken(cur), <<>>)
      [] Match(cur, {"INTEGER", "FLOAT", "STRING", "BOOLEAN"}) ->
            Ok(LiteralNode(PeekToken(cur)), AdvanceToken(cur), <<>>)
      [] Match(cur, {"IDENTIFIER"}) ->
            Ok(IdentifierNode(PeekToken(cur)), AdvanceToken(cur), <<>>)
      [] Match(cur, {"LEFT_PAREN"}) -> CloseParen(ParseExpression(AdvanceToken(cur)))
      [] OTHER -> Raise("expect expression", cur, <<>>)

\* finish_call after the arguments: consume(RIGHT_PAREN) and build the call
CloseCall(callee, paren, arguments, cur) ==
    IF Match(cur, {"RIGHT_PAREN"})
    THEN Ok(CallNode(callee, arguments, paren.line, paren.column), AdvanceToken(cur), <<>>)
    ELSE Raise("expect ')'", cur, <<>>)

\* arguments.append(arg), arg what parse_expression returned; then
\* while match(COMMA): advance; arguments.append(parse_expression())
ArgumentLoop(callee, paren, arguments, arg) ==
    IF arg.ok
    THEN IF Match(arg.cur, {"COMMA"})
         THEN ArgumentLoop(callee, paren, Append(arguments, arg.node),
                           ParseExpression(AdvanceToken(arg.cur)))
         ELSE CloseCall(callee, paren, Append(arguments, arg.node), arg.cur)
    ELSE arg

FinishCall(callee, cur) ==
    CASE ~Match(cur, {"LEFT_PAREN"}) -> Raise("expect '('", cur, <<>>)
      [] Match(cur, {"LEFT_PAREN"}) /\ Match(AdvanceToken(cur), {"RIGHT_PAREN"}) ->
            CloseCall(callee, PeekToken(cur), <<>>, AdvanceToken(cur))
      [] OTHER ->
            ArgumentLoop(callee, PeekToken(cur), <<>>, ParseExpression(AdvanceToken(cur)))

\* while True: if match(LEFT_PAREN): expr = finish_call(expr) else: break
CallLoop(expr) ==
    IF expr.ok
    THEN IF Match(expr.cur, {"LEFT_PAREN"})
         THEN CallLoop(FinishCall(expr.node, expr.cur))
         ELSE expr
    ELSE expr

ParseCall(cur) == CallLoop(ParsePrimary(cur))

UnaryOperation(operator, right) ==
    IF right.ok THEN Ok(UnaryNode(operator, right.node), right.cur, <<>>) ELSE right

ParseUnary(cur) ==
    IF Match(cur, {"NOT", "MINUS"})
    THEN UnaryOperation(PeekToken(cur), ParseUnary(AdvanceToken(cur)))
    ELSE ParseCall(cur)

\* The ladder with the additive and the multiplicative level exchanged.
NextPrecedenceSwapped(level, cur) ==
    IF level = "addition" THEN ParseUnary(cur)
    ELSE ParseBinaryLeft(CASE level = "logical_or" -> "logical_and"
                           [] level = "logical_and" -> "equality"
                           [] level = "equality" -> "comparison"
                           [] level = "comparison" -> "multiplication"
                           [] level = "multiplication" -> "addition",
                         cur)

\* next_precedence of each level, as parse_logical_or .. parse_multiplication pass it
NextPrecedence(level, cur) ==
    IF level = "multiplication" THEN ParseUnary(cur)
    ELSE ParseBinaryLeft(CASE level = "logical_or" -> "logical_and"
                           [] level = "logical_and" -> "equality"
                           [] level = "equality" -> "comparison"
                           [] level = "comparison" -> "addition"
                           [] level = "addition" -> "multiplication",
                         cur)

\* expr = BinaryExpression(expr, operator, right), operator the token after expr
BinaryOperation(left, right) ==
    IF right.ok
    THEN Ok(BinaryNode(left.node, PeekToken(left.cur), right.node), right.cur, <<>>)
    ELSE right

\* A loop that parses its right operand at its own level: right-nested chains.
BinaryLeftLoopRightNested(level, left) ==
    IF left.ok
    THEN IF Match(left.cur, LevelOperators(level))
         THEN BinaryOperation(left, ParseBinaryLeft(level, AdvanceToken(left.cur)))
         ELSE left
    ELSE left

\* while match(*operators): operator = advance(); right = next_precedence(); ...
BinaryLeftLoop(level, left) ==
    IF left.ok
    THEN IF Match(left.cur, LevelOperators(level))
         THEN BinaryLeftLoop(level, BinaryOperation(left,
                                        NextPrecedence(level, AdvanceToken(left.cur))))
         ELSE left
    ELSE left

\* expr = next_precedence(), then the loop
ParseBinaryLeft(level, cur) == BinaryLeftLoop(level, NextPrecedence(level, cur))

ParseLogicalOr(cur) == ParseBinaryLeft("logical_or", cur)

\* Assignment(expr, value, equals.line, equals.column), equals the token after expr
AssignmentOperation(expr, value) ==
    IF value.ok
    THEN Ok(AssignmentNode(expr.node, value.node, PeekToken(expr.cur).line,
                           PeekToken(expr.cur).column),
            value.cur, <<>>)
    ELSE value

\* parse_assignment after expr = parse_logical_or()
AssignmentRest(expr) ==
    IF expr.ok
    THEN IF Match(expr.cur, {"ASSIGN"})
         THEN AssignmentOperation(expr, ParseAssignment(AdvanceToken(expr.cur)))
         ELSE expr
    ELSE expr

ParseAssignment(cur) == AssignmentRest(ParseLogicalOr(cur))

ParseExpression(cur) == ParseAssignment(cur)

RECURSIVE ParseStatement(_), ParseStatementBody(_), ParseFunctionDeclaration(_),
          ParseIfStatement(_), ParseWhileStatement(_), ParseBlockStatement(_),
          BlockLoop(_, _, _, _), BlockStatement(_, _, _, _), ParameterLoop(_)

\* parameters.append(consume(IDENTIFIER).value)
ConsumeParameter(parameters, cur) ==
    IF Match(cur, {"IDENTIFIER"})
    THEN Ok(Append(parameters, PeekToken(cur).value.s), AdvanceToken(cur), <<>>)
    ELSE Raise("expect parameter name", cur, <<>>)

\* while match(COMMA): advance; parameters.append(consume(IDENTIFIER).value)
ParameterLoop(params) ==
    IF params.ok /\ Match(params.cur, {"COMMA"})
    THEN ParameterLoop(ConsumeParameter(params.node, AdvanceToken(params.cur)))
    ELSE params

\* the function declaration node, once its body is parsed
FunctionDeclaration(func_token, name, parameters, body) ==
    IF body.ok
    THEN Ok(FunctionDeclarationNode(name, parameters, body.node,
                                    func_token.line, func_token.column),
            body.cur, body.syncs)
    ELSE body

\* parse_function_declaration after the parameter list: consume(RIGHT_PAREN), the body
FunctionBody(func_token, name, params) ==
    IF params.ok
    THEN IF Match(params.cur, {"RIGHT_PAREN"})
         THEN FunctionDeclaration(func_token, name, params.node,
                                  ParseBlockStatement(AdvanceToken(params.cur)))
         ELSE Raise("expect ')'", params.cur, <<>>)
    ELSE params

ParseFunctionDeclaration(cur) ==
    CASE ~Match(cur, {"FUNCTION"}) -> Raise("expect 'func'", cur, <<>>)
      [] Match(cur, {"FUNCTION"}) /\ ~Match(cur + 1, {"IDENTIFIER"}) ->
            Raise("expect function name", cur + 1, <<>>)
      [] Match(cur, {"FUNCTION"}) /\ Match(cur + 1, {"IDENTIFIER"})
         /\ ~Match(cur + 2, {"LEFT_PAREN"}) -> Raise("expect '('", cur + 2, <<>>)
      [] OTHER ->
            FunctionBody(PeekToken(cur), PeekToken(cur + 1).value.s,
                         IF Match(cur + 3, {"RIGHT_PAREN"}) THEN Ok(<<>>, cur + 3, <<>>)
                         ELSE ParameterLoop(ConsumeParameter(<<>>, cur + 3)))

\* parse_if_statement after the else branch
IfElse(if_token, condition, then_branch, else_branch) ==
    Ok(IfNode(condition, then_branch.node, else_branch.node,
              if_token.line, if_token.column),
       else_branch.cur, then_branch.syncs \o else_branch.syncs)

\* parse_if_statement after then_branch = parse_statement()
IfThen(if_token, condition, then_branch) ==
    IF then_branch.node.kind = "None"
    THEN Raise("expect statement", then_branch.cur, then_branch.syncs)
    ELSE IF Match(then_branch.cur, {"ELSE"})
    THEN IfElse(if_token, condition, then_branch,
                ParseStatement(AdvanceToken(then_branch.cur)))
    ELSE Ok(IfNode(condition, then_branch.node, NoNode, if_token.line, if_token.column),
            then_branch.cur, then_branch.syncs)

\* parse_if_statement after condition = parse_expression()
IfCondition(if_token, condition) ==
    IF condition.ok
    THEN IF Match(condition.cur, {"RIGHT_PAREN"})
         THEN IfThen(if_token, condition.node,
                     ParseStatement(AdvanceToken(condition.cur)))
         ELSE Raise("expect ')'", condition.cur, <<>>)
    ELSE condition

ParseIfStatement(cur) ==
    CASE ~Match(cur, {"IF"}) -> Raise("expect 'if'", cur, <<>>)
      [] Match(cur, {"IF"}) /\ ~Match(cur + 1, {"LEFT_PAREN"}) ->
            Raise("expect '('", cur + 1, <<>>)
      [] OTHER -> IfCondition(PeekToken(cur), ParseExpression(cur + 2))

\* parse_while_statement after body = parse_statement()
WhileBody(while_token, condition, body) ==
    IF body.node.kind = "None"
    THEN Raise("expect statement", body.cur, body.syncs)
    ELSE Ok(WhileNode(condition, body.node, while_token.line, while_token.column),
            body.cur, body.syncs)

\* parse_while_statement after condition = parse_expression()
WhileCondition(while_token, condition) ==
    IF condition.ok
    THEN IF Match(condition.cur, {"RIGHT_PAREN"})
         THEN WhileBody(while_token, condition.node,
                        ParseStatement(AdvanceToken(condition.cur)))
         ELSE Raise("expect ')'", condition.cur, <<>>)
    ELSE condition

ParseWhileStatement(cur) ==
    CASE ~Match(cur, {"WHILE"}) -> Raise("expect 'while'", cur, <<>>)
      [] Match(cur, {"WHILE"}) /\ ~Match(cur + 1, {"LEFT_PAREN"}) ->
            Raise("expect '('", cur + 1, <<>>)
      [] OTHER -> WhileCondition(PeekToken(cur), ParseExpression(cur + 2))

\* parse_return_statement after the value: consume(SEMICOLON)
ReturnValue(return_token, value) ==
    IF value.ok
    THEN IF Match(value.cur, {"SEMICOLON"})
         THEN Ok(ReturnNode(value.node, return_token.line, return_token.column),
                 AdvanceToken(value.cur), <<>>)
         ELSE Raise("expect ';'", value.cur, <<>>)
    ELSE value

ParseReturnStatement(cur) ==
    IF Match(cur, {"RETURN"})
    THEN ReturnValue(PeekToken(cur),
                     IF Match(cur + 1, {"SEMICOLON", "NEWLINE", "EOF"})
                     THEN Ok(NoNode, cur + 1, <<>>)
                     ELSE ParseExpression(cur + 1))
    ELSE Raise("expect 'return'", cur, <<>>)

\* parse_block_statement after its loop: consume(RIGHT_BRACE)
CloseBlock(left_brace, stmts, cur, syncs) ==
    IF Match(cur, {"RIGHT_BRACE"})
    THEN Ok(BlockNode(stmts, left_brace.line, left_brace.column), AdvanceToken(cur), syncs)
    ELSE Raise("expect '}'", cur, syncs)

\* if stmt: statements.append(stmt); skip_newlines(); and the loop again
BlockStatement(left_brace, stmts, syncs, stmt) ==
    IF stmt.node.kind # "None"
    THEN BlockLoop(left_brace, Append(stmts, stmt.node), SkipNewlines(stmt.cur),
                   syncs \o stmt.syncs)
    ELSE BlockLoop(left_brace, stmts, SkipNewlines(stmt.cur), syncs \o stmt.syncs)

\* while not match(RIGHT_BRACE) and not at_end(): stmt = parse_statement(); ...
BlockLoop(left_brace, stmts, cur, syncs) ==
    IF ~Match(cur, {"RIGHT_BRACE"}) /\ ~AtEnd(cur)
    THEN BlockStatement(left_brace, stmts, syncs, ParseStatement(cur))
    ELSE CloseBlock(left_brace, stmts, cur, syncs)

ParseBlockStatement(cur) ==
    IF Match(cur, {"LEFT_BRACE"})
    THEN BlockLoop(PeekToken(cur), <<>>, SkipNewlines(AdvanceToken(cur)), <<>>)
    ELSE Raise("expect '{'", cur, <<>>)

\* parse_expression_statement after expr = parse_expression(): consume(SEMICOLON)
EndExpressionStatement(expr) ==
    IF expr.ok
    THEN IF Match(expr.cur, {"SEMICOLON"})
         THEN Ok(ExpressionStatementNode(expr.node), AdvanceToken(expr.cur), <<>>)
         ELSE Raise("expect ';'", expr.cur, <<>>)
    ELSE expr

ParseExpressionStatement(cur) == EndExpressionStatement(ParseExpression(cur))

\* The dispatch inside the try of parse_statement.
ParseStatementBody(cur) ==
    CASE Match(cur, {"FUNCTION"}) -> ParseFunctionDeclaration(cur)
      [] Match(cur, {"IF"}) -> ParseIfStatement(cur)
      [] Match(cur, {"WHILE"}) -> ParseWhileStatement(cur)
      [] Match(cur, {"RETURN"}) -> ParseReturnStatement(cur)
      [] Match(cur, {"LEFT_BRACE"}) -> ParseBlockStatement(cur)
      [] OTHER -> ParseExpressionStatement(cur)

\* What parse_statement does with a ParserError raised inside its try:
\* synchronize and return None.
Recover(raised) ==
    [ok |-> TRUE, node |-> NoNode, cur |-> Synchronize(raised.cur), msg |-> raised.msg,
     syncs |-> Append(raised.syncs,
                      [start |-> raised.cur, stop |-> Synchronize(raised.cur),
                       msg |-> raised.msg])]

\* parse_statement without its except clause
TryStatementUncaught(body) == body

\* try: the dispatch; except ParserError: synchronize, return None
TryStatement(body) == IF body.ok THEN body ELSE Recover(body)

ParseStatement(cur) == TryStatement(ParseStatementBody(cur))

(***************************************************************************)
(* Symbols and scopes (src/src/semantic/symbols.py).  A symbol table keeps *)
(* its symbols in the order they were defined; id tells the table objects  *)
(* apart, the first one created by a manager being 1.                      *)
(***************************************************************************)
NoSymbol == [kind |-> "None"]

VariableSymbol(name, type, l, c, initialized) ==
    [kind |-> "variable", name |-> name, type |-> type, line |-> l, column |-> c,
     initialized |-> initialized]

FunctionSymbol(name, function_type, parameters, l, c, defined) ==
    [kind |-> "function", name |-> name, type |-> function_type, line |-> l,
     column |-> c, parameters |-> parameters, defined |-> defined]

ParameterSymbol(name, type, pos, l, c) ==
    [kind |-> "parameter", name |-> name, type |-> type, line |-> l, column |-> c,
     position |-> pos]

SymbolTable(id, name) == [id |-> id, name |-> name, symbols |-> <<>>]

TableExists(table, name) == \E i \in 1..Len(table.symbols) : table.symbols[i].name = name

TableLookup(table, name) ==
    IF TableExists(table, name)
    THEN table.symbols[CHOOSE i \in 1..Len(table.symbols) : table.symbols[i].name = name]
    ELSE NoSymbol

\* a define that overwrites the symbol already there
TableDefineOverwrites(table, symbol) ==
    IF TableExists(table, symbol.name)
    THEN [table EXCEPT !.symbols =
            [i \in 1..Len(@) |-> IF @[i].name = symbol.name THEN symbol ELSE @[i]]]
    ELSE [table EXCEPT !.symbols = Append(@, symbol)]

\* define: the table afterwards; it returns TableExists(table, symbol.name) negated
TableDefine(table, symbol) ==
    IF TableExists(table, symbol.name) THEN table
    ELSE [table EXCEPT !.symbols = Append(@, symbol)]

ScopeManager == [scope_stack |-> <<>>, global_scope |-> 0, created |-> 0]

EnterScope(manager, name) ==
    [scope_stack |-> Append(manager.scope_stack, SymbolTable(manager.created + 1, name)),
     global_scope |-> IF manager.global_scope = 0 THEN manager.created + 1
                      ELSE manager.global_scope,
     created |-> manager.created + 1]

\* an exit_scope that pops nothing
ExitScopeKeepsTop(manager) == manager

ExitScope(manager) ==
    IF manager.scope_stack # <<>>
    THEN [manager EXCEPT !.scope_stack = SubSeq(@, 1, Len(@) - 1)]
    ELSE manager

\* what define_symbol returns
CanDefineSymbol(manager, symbol) ==
    /\ manager.scope_stack # <<>>
    /\ ~TableExists(manager.scope_stack[Len(manager.scope_stack)], symbol.name)

DefineSymbol(manager, symbol) ==
    IF manager.scope_stack # <<>>
    THEN [manager EXCEPT !.scope_stack[Len(manager.scope_stack)] = TableDefine(@, symbol)]
    ELSE manager

\* a search from the outermost scope inwards
ScopeOfOutermost(manager, name) ==
    IF \E d \in 1..Len(manager.scope_stack) : TableExists(manager.scope_stack[d], name)
    THEN CHOOSE d \in 1..Len(manager.scope_stack) :
            /\ TableExists(manager.scope_stack[d], name)
            /\ \A e \in 1..(d - 1) : ~TableExists(manager.scope_stack[e], name)
    ELSE 0

\* the index in the stack of the innermost scope that has the name, 0 if none has
ScopeOf(manager, name) ==
    IF \E d \in 1..Len(manager.scope_stack) : TableExists(manager.scope_stack[d], name)
    THEN CHOOSE d \in 1..Len(manager.scope_stack) :
            /\ TableExists(manager.scope_stack[d], name)
            /\ \A e \in (d + 1)..Len(manager.scope_stack) :
                  ~TableExists(manager.scope_stack[e], name)
    ELSE 0

LookupSymbol(manager, name) ==
    IF ScopeOf(manager, name) = 0 THEN NoSymbol
    ELSE TableLookup(manager.scope_stack[ScopeOf(manager, name)], name)

LookupSymbolCurrentScope(manager, name) ==
    IF manager.scope_stack # <<>>
    THEN TableLookup(manager.scope_stack[Len(manager.scope_stack)], name)
    ELSE NoSymbol

(***************************************************************************)
(* Function types in the analyzer are objects: the analyzer assigns the    *)
(* return type of one after its symbol, and whatever else took the same    *)
(* object, already refers to it.  heap[id] is the object, FunctionObject   *)
(* (id) a reference to it; primitive types are the values of above.        *)
(***************************************************************************)
FunctionObject(id) == [kind |-> "func", id |-> id]

NewFunctionType(heap, params, ret) == Append(heap, [params |-> params, ret |-> ret])

\* create_builtin_symbols: print(String) -> Void, len(String) -> Int, str(Int) -> String
BuiltinHeap ==
    <<[params |-> <<StringType>>, ret |-> VoidType],
      [params |-> <<StringType>>, ret |-> IntType],
      [params |-> <<IntType>>, ret |-> StringType]>>

BuiltinSymbols ==
    <<FunctionSymbol("print", FunctionObject(1), <<"message">>, 0, 0, TRUE),
      FunctionSymbol("len", FunctionObject(2), <<"s">>, 0, 0, TRUE),
      FunctionSymbol("str", FunctionObject(3), <<"value">>, 0, 0, TRUE)>>

\* the function objects a type refers to directly
ReferencedBy(heap, type) ==
    IF IsFunc(type)
    THEN {t.id : t \in {u \in {heap[type.id].ret}
                                \cup {heap[type.id].params[i] :
                                         i \in 1..Len(heap[type.id].params)} : IsFunc(u)}}
    ELSE {}

RECURSIVE ReachableFrom(_, _)
\* the function objects reachable from those of ids, these included
ReachableFrom(heap, ids) ==
    IF UNION {ReferencedBy(heap, FunctionObject(id)) : id \in ids} \subseteq ids THEN ids
    ELSE ReachableFrom(heap, ids \cup UNION {ReferencedBy(heap, FunctionObject(id)) : id \in ids})

\* __str__ of a type never returns when the type reaches an object that reaches
\* itself: Python ends the recursion with a RecursionError.
StrRecurses(heap, type) ==
    /\ IsFunc(type)
    /\ \E id \in ReachableFrom(heap, {type.id}) :
          id \in ReachableFrom(heap, ReferencedBy(heap, FunctionObject(id)))

RECURSIVE CompatibleObjects(_, _, _, _), CompatibleParameters(_, _, _, _, _)

\* the parameter loop of is_compatible_with of a function type, then the return types
CompatibleParameters(heap, self, other, i, seen) ==
    IF i > Len(heap[self.id].params)
    THEN CompatibleObjects(heap, heap[self.id].ret, heap[other.id].ret, seen)
    ELSE IF CompatibleObjects(heap, heap[self.id].params[i], heap[other.id].params[i],
                              seen) = "True"
    THEN CompatibleParameters(heap, self, other, i + 1, seen)
    ELSE CompatibleObjects(heap, heap[self.id].params[i], heap[other.id].params[i], seen)

\* is_compatible_with on types of the heap: "True", "False", or "RecursionError"
\* when the walk over the two types comes back to a pair it is in the middle of.
CompatibleObjects(heap, self, other, seen) ==
    IF IsPrim(self) THEN (IF IsCompatibleWith(self, other) THEN "True" ELSE "False")
    ELSE IF ~IsFunc(other) THEN "False"
    ELSE IF <<self.id, other.id>> \in seen THEN "RecursionError"
    ELSE IF Len(heap[self.id].params) # Len(heap[other.id].params) THEN "False"
    ELSE CompatibleParameters(heap, self, other, 1, seen \cup {<<self.id, other.id>>})

\* check_assignment on types of the heap
AssignableObjects(heap, target_type, value_type) ==
    IF IsPrim(target_type)
    THEN (IF CheckAssignment(target_type, value_type) THEN "True" ELSE "False")
    ELSE CompatibleObjects(heap, target_type, value_type, {})

(***************************************************************************)
(* The semantic analyzer (src/src/semantic/analyzer.py).  an is the        *)
(* analyzer object: its scope manager, its error list, the return type of  *)
(* the function it is in (NoType for None) and the function type objects.  *)
(* A visit gives the result it returns and the analyzer after it, or the   *)
(* exception that left it.  The parser builds no variable declaration      *)
(* node, and visit has no case for one here.                               *)
(***************************************************************************)
AnalysisResult(type, assignable, an) ==
    [ok |-> TRUE, type |-> type, assignable |-> assignable, an |-> an]

RaisedIn(exc, an) == [ok |-> FALSE, exc |-> exc, an |-> an]

SemanticError(message, l, c) == [message |-> message, line |-> l, column |-> c]

Error(an, message, l, c) ==
    [an EXCEPT !.error_list = Append(@, SemanticError(message, l, c))]

RECURSIVE DefineBuiltins(_, _)
DefineBuiltins(manager, i) ==
    IF i > Len(BuiltinSymbols) THEN manager
    ELSE DefineBuiltins(DefineSymbol(manager, BuiltinSymbols[i]), i + 1)

\* __init__
NewAnalyzer ==
    [scope_manager |-> DefineBuiltins(EnterScope(ScopeManager, "global"), 1),
     error_list |-> <<>>,
     current_function_return_type |-> NoType,
     heap |-> BuiltinHeap]

\* the symbol of that name in the scope at depth, replaced: a field of the symbol
\* object assigned
UpdateSymbol(manager, depth, symbol) ==
    [manager EXCEPT !.scope_stack[depth].symbols =
        [i \in 1..Len(@) |-> IF @[i].name = symbol.name THEN symbol ELSE @[i]]]

RECURSIVE Visit(_, _), VisitStatements(_, _, _), VisitArguments(_, _, _, _)

VisitLiteral(node, an) ==
    AnalysisResult(InferLiteralType(node.type, node.value), FALSE, an)

\* visit_identifier once the symbol is looked up
IdentifierResult(node, symbol, an) ==
    IF symbol = NoSymbol
    THEN AnalysisResult(UnknownType, TRUE,
                        Error(an, "undefined identifier", node.line, node.column))
    ELSE AnalysisResult(symbol.type, symbol.kind \in {"variable", "parameter"},
                        IF symbol.kind = "variable" /\ ~symbol.initialized
                        THEN Error(an, "used before initialization", node.line, node.column)
                        ELSE an)

VisitIdentifier(node, an) ==
    IdentifierResult(node, LookupSymbol(an.scope_manager, node.name), an)

\* visit_binary after check_binary_operation
BinaryResult(node, left_type, right_type, result_type, an) ==
    CASE result_type # NoType -> AnalysisResult(result_type, FALSE, an)
      [] result_type = NoType
         /\ (StrRecurses(an.heap, left_type) \/ StrRecurses(an.heap, right_type)) ->
            RaisedIn("RecursionError", an)
      [] OTHER ->
            AnalysisResult(UnknownType, FALSE,
                           Error(an, "unsupported binary operation", node.line, node.column))

\* visit_binary after right_result = visit(right)
BinaryCheck(node, left_type, right_result) ==
    IF right_result.ok
    THEN BinaryResult(node, left_type, right_result.type,
                      CheckBinaryOperation(left_type, node.operator.type, right_result.type),
                      right_result.an)
    ELSE right_result

\* visit_binary after left_result = visit(left)
BinaryRight(node, left_result) ==
    IF left_result.ok
    THEN BinaryCheck(node, left_result.type, Visit(node.right, left_result.an))
    ELSE left_result

VisitBinary(node, an) == BinaryRight(node, Visit(node.left, an))

\* visit_unary after check_unary_operation
UnaryResult(node, operand_type, result_type, an) ==
    CASE result_type # NoType -> AnalysisResult(result_type, FALSE, an)
      [] result_type = NoType /\ StrRecurses(an.heap, operand_type) ->
            RaisedIn("RecursionError", an)
      [] OTHER ->
            AnalysisResult(UnknownType, FALSE,
                           Error(an, "unsupported unary operation", node.line, node.column))

\* visit_unary after operand_result = visit(operand)
UnaryCheck(node, operand_result) ==
    IF operand_result.ok
    THEN UnaryResult(node, operand_result.type,
                     CheckUnaryOperation(node.operator.type, operand_result.type),
                     operand_result.an)
    ELSE operand_result

VisitUnary(node, an) == UnaryCheck(node, Visit(node.operand, an))

\* arg_results = [visit(arg) for arg in arguments], from argument i on: last is
\* what the visit of argument i - 1 returned, types the types of those before it
VisitArguments(arguments, i, types, last) ==
    IF last.ok
    THEN IF i > Len(arguments)
         THEN [ok |-> TRUE, types |-> Append(types, last.type), an |-> last.an]
         ELSE VisitArguments(arguments, i + 1, Append(types, last.type),
                             Visit(arguments[i], last.an))
    ELSE last

\* a call that does not compare the counts
CallCheckAnyCount(node, func_type, args) ==
    IF args.ok
    THEN IF IsFunc(func_type)
         THEN AnalysisResult(args.an.heap[func_type.id].ret, FALSE, args.an)
         ELSE AnalysisResult(UnknownType, FALSE,
                             Error(args.an, "not a function type", node.line, node.column))
    ELSE args

\* visit_call after the arguments
CallCheck(node, func_type, args) ==
    IF args.ok
    THEN IF IsFunc(func_type)
         THEN IF Len(args.types) # Len(args.an.heap[func_type.id].params)
              THEN AnalysisResult(UnknownType, FALSE,
                                  Error(args.an, "argument count mismatch",
                                        node.line, node.column))
              ELSE AnalysisResult(args.an.heap[func_type.id].ret, FALSE, args.an)
         ELSE AnalysisResult(UnknownType, FALSE,
                             Error(args.an, "not a function type", node.line, node.column))
    ELSE args

\* visit_call after func_result = visit(callee)
CallArguments(node, func_result) ==
    IF func_result.ok
    THEN CallCheck(node, func_result.type,
                   IF node.arguments = <<>>
                   THEN [ok |-> TRUE, types |-> <<>>, an |-> func_result.an]
                   ELSE VisitArguments(node.arguments, 2, <<>>,
                                       Visit(node.arguments[1], func_result.an)))
    ELSE func_result

VisitCall(node, an) == CallArguments(node, Visit(node.callee, an))

\* the assignment to a symbol that exists and is a variable or a parameter, given
\* what check_assignment said of its type and the value's
\* an assignment that gives the symbol the type of every value assigned to it
AssignExistingRetypes(node, depth, symbol, value_type, assignable, an) ==
    AnalysisResult(value_type, FALSE,
        [(IF assignable = "False"
          THEN Error(an, "incompatible types", node.line, node.column) ELSE an)
         EXCEPT !.scope_manager =
            UpdateSymbol(@, depth, [symbol EXCEPT !.type = value_type])])

AssignExisting(node, depth, symbol, value_type, assignable, an) ==
    CASE assignable = "RecursionError" -> RaisedIn("RecursionError", an)
      [] assignable = "False"
         /\ (StrRecurses(an.heap, value_type) \/ StrRecurses(an.heap, symbol.type)) ->
            RaisedIn("RecursionError", an)
      [] OTHER ->
            AnalysisResult(
                IF symbol.type = UnknownType THEN value_type ELSE symbol.type, FALSE,
                [(IF assignable = "False"
                  THEN Error(an, "incompatible types", node.line, node.column) ELSE an)
                 EXCEPT !.scope_manager =
                    UpdateSymbol(@, depth,
                        IF symbol.kind = "variable"
                        THEN [symbol EXCEPT
                                !.type = IF @ = UnknownType THEN value_type ELSE @,
                                !.initialized = TRUE]
                        ELSE [symbol EXCEPT
                                !.type = IF @ = UnknownType THEN value_type ELSE @])])

\* an implicit declaration that leaves the new variable uninitialized
AssignToUninitialized(node, existing_symbol, value_type, an) ==
    CASE existing_symbol = NoSymbol ->
            AnalysisResult(value_type, FALSE,
                [an EXCEPT !.scope_manager =
                    DefineSymbol(@, VariableSymbol(node.target.name, value_type,
                                                   node.line, node.column, FALSE))])
      [] existing_symbol # NoSymbol /\ existing_symbol.kind = "function" ->
            AnalysisResult(UnknownType, FALSE,
                           Error(an, "not a variable", node.line, node.column))
      [] OTHER ->
            AssignExisting(node, ScopeOf(an.scope_manager, node.target.name),
                           existing_symbol, value_type,
                           IF existing_symbol.type # UnknownType
                           THEN AssignableObjects(an.heap, existing_symbol.type, value_type)
                           ELSE "True",
                           an)

\* visit_assignment to an identifier, once the symbol is looked up
AssignTo(node, existing_symbol, value_type, an) ==
    CASE existing_symbol = NoSymbol ->
            AnalysisResult(value_type, FALSE,
                [an EXCEPT !.scope_manager =
                    DefineSymbol(@, VariableSymbol(node.target.name, value_type,
                                                   node.line, node.column, TRUE))])
      [] existing_symbol # NoSymbol /\ existing_symbol.kind = "function" ->
            AnalysisResult(UnknownType, FALSE,
                           Error(an, "not a variable", node.line, node.column))
      [] OTHER ->
            AssignExisting(node, ScopeOf(an.scope_manager, node.target.name),
                           existing_symbol, value_type,
                           IF existing_symbol.type # UnknownType
                           THEN AssignableObjects(an.heap, existing_symbol.type, value_type)
                           ELSE "True",
                           an)

\* visit_assignment after value_result = visit(value)
AssignmentTarget(node, value_result) ==
    IF value_result.ok
    THEN IF node.target.kind = "Identifier"
         THEN AssignTo(node, LookupSymbol(value_result.an.scope_manager, node.target.name),
                       value_result.type, value_result.an)
         ELSE AnalysisResult(UnknownType, FALSE,
                             Error(value_result.an, "unsupported assignment target",
                                   node.line, node.column))
    ELSE value_result

VisitAssignment(node, an) == AssignmentTarget(node, Visit(node.value, an))

VisitExpressionStatement(node, an) == Visit(node.expression, an)

\* the statements of a list from statement i on, last what the one before returned
VisitStatements(stmts, i, last) ==
    IF last.ok
    THEN IF i > Len(stmts) THEN last
         ELSE VisitStatements(stmts, i + 1, Visit(stmts[i], last.an))
    ELSE last

\* a block left without exit_scope
BlockExitKeepsScope(last) ==
    IF last.ok THEN AnalysisResult(VoidType, FALSE, last.an) ELSE last

\* visit_block after its loop: exit_scope
BlockExit(last) ==
    IF last.ok
    THEN AnalysisResult(VoidType, FALSE,
                        [last.an EXCEPT !.scope_manager = ExitScope(@)])
    ELSE last

VisitBlock(node, an) ==
    BlockExit(VisitStatements(node.statements, 1,
                              AnalysisResult(VoidType, FALSE,
                                  [an EXCEPT !.scope_manager = EnterScope(@, "block")])))

\* a check that accepts the Bool type only
ConditionCheckedBoolOnly(node, message, condition_type, an) ==
    IF condition_type # BoolType
    THEN Error(an, message, node.line, node.column)
    ELSE an

\* the check of the condition of an if or a while
ConditionChecked(node, message, condition_type, an) ==
    IF IsPrim(condition_type) /\ condition_type.v \notin {"Bool", "Unknown"}
    THEN Error(an, message, node.line, node.column)
    ELSE an

\* what visit_if and visit_while return after their last visit
StatementResult(last) ==
    IF last.ok THEN AnalysisResult(VoidType, FALSE, last.an) ELSE last

\* visit_if after visit(then_branch)
VisitElse(node, then_result) ==
    IF then_result.ok
    THEN IF node.else_branch.kind # "None"
         THEN StatementResult(Visit(node.else_branch, then_result.an))
         ELSE StatementResult(then_result)
    ELSE then_result

\* visit_if after condition_result = visit(condition)
VisitThen(node, condition_result) ==
    IF condition_result.ok
    THEN VisitElse(node, Visit(node.then_branch,
                               ConditionChecked(node, "condition must be boolean",
                                                condition_result.type, condition_result.an)))
    ELSE condition_result

VisitIf(node, an) == VisitThen(node, Visit(node.condition, an))

\* visit_while after condition_result = visit(condition)
VisitLoopBody(node, condition_result) ==
    IF condition_result.ok
    THEN StatementResult(Visit(node.body,
                               ConditionChecked(node, "while condition must be boolean",
                                                condition_result.type, condition_result.an)))
    ELSE condition_result

VisitWhile(node, an) == VisitLoopBody(node, Visit(node.condition, an))

\* visit_return with a return type already set, given what is_compatible_with said
ReturnCheck(node, return_type, compatible, an) ==
    CASE compatible = "RecursionError" -> RaisedIn("RecursionError", an)
      [] compatible = "False" /\ return_type # UnknownType
         /\ an.current_function_return_type # UnknownType
         /\ (StrRecurses(an.heap, return_type)
             \/ StrRecurses(an.heap, an.current_function_return_type)) ->
            RaisedIn("RecursionError", an)
      [] compatible = "False" /\ return_type # UnknownType
         /\ an.current_function_return_type # UnknownType
         /\ ~(StrRecurses(an.heap, return_type)
              \/ StrRecurses(an.heap, an.current_function_return_type)) ->
            AnalysisResult(return_type, FALSE,
                           Error(an, "inconsistent return type", node.line, node.column))
      [] OTHER -> AnalysisResult(return_type, FALSE, an)

\* a visit_return that records the type of every return it meets
ReturnUpdateOverwrites(node, result) ==
    IF result.ok
    THEN AnalysisResult(result.type, FALSE,
                        [result.an EXCEPT !.current_function_return_type = result.type])
    ELSE result

\* visit_return after the value
ReturnUpdate(node, result) ==
    IF result.ok
    THEN IF result.an.current_function_return_type = NoType
         THEN AnalysisResult(result.type, FALSE,
                             [result.an EXCEPT !.current_function_return_type = result.type])
         ELSE ReturnCheck(node, result.type,
                          CompatibleObjects(result.an.heap,
                                            result.an.current_function_return_type,
                                            result.type, {}),
                          result.an)
    ELSE result

VisitReturn(node, an) ==
    ReturnUpdate(node, IF node.value.kind # "None" THEN Visit(node.value, an)
                       ELSE AnalysisResult(VoidType, FALSE, an))

RECURSIVE DefineParameters(_, _, _)
\* for i, param_name in enumerate(parameters): define the parameter symbol
DefineParameters(node, i, an) ==
    IF i > Len(node.parameters) THEN an
    ELSE DefineParameters(node, i + 1,
            IF CanDefineSymbol(an.scope_manager,
                               ParameterSymbol(node.parameters[i], UnknownType, i - 1,
                                               node.line, node.column))
            THEN [an EXCEPT !.scope_manager =
                    DefineSymbol(@, ParameterSymbol(node.parameters[i], UnknownType, i - 1,
                                                    node.line, node.column))]
            ELSE Error(an, "parameter redefined", node.line, node.column))

\* visit_function_declaration up to the visit of the body: the function type and
\* its symbol, the function scope with the parameters, the return type cleared
FunctionEntered(node, an) ==
    DefineParameters(node, 1,
        [an EXCEPT
            !.heap = NewFunctionType(@, [i \in 1..Len(node.parameters) |-> UnknownType],
                                     UnknownType),
            !.scope_manager =
                EnterScope(DefineSymbol(@, FunctionSymbol(node.name,
                                                          FunctionObject(Len(an.heap) + 1),
                                                          node.parameters, node.line,
                                                          node.column, FALSE)),
                           "function_" \o node.name),
            !.current_function_return_type = NoType])

\* an exit that leaves the return type of the body in the analyzer
FunctionExitUnrestored(node, old_return_type, function_type, body_result) ==
    IF body_result.ok
    THEN AnalysisResult(function_type, FALSE,
            [body_result.an EXCEPT
                !.heap[function_type.id].ret =
                    IF body_result.an.current_function_return_type # NoType
                    THEN body_result.an.current_function_return_type
                    ELSE VoidType,
                !.scope_manager =
                    UpdateSymbol(ExitScope(@), Len(@.scope_stack) - 1,
                                 FunctionSymbol(node.name, function_type, node.parameters,
                                                node.line, node.column, TRUE))])
    ELSE body_result

\* visit_function_declaration after the visit of the body
FunctionExit(node, old_return_type, function_type, body_result) ==
    IF body_result.ok
    THEN AnalysisResult(function_type, FALSE,
            [body_result.an EXCEPT
                !.heap[function_type.id].ret =
                    IF body_result.an.current_function_return_type # NoType
                    THEN body_result.an.current_function_return_type
                    ELSE VoidType,
                !.current_function_return_type = old_return_type,
                !.scope_manager =
                    UpdateSymbol(ExitScope(@), Len(@.scope_stack) - 1,
                                 FunctionSymbol(node.name, function_type, node.parameters,
                                                node.line, node.column, TRUE))])
    ELSE body_result

VisitFunctionDeclaration(node, an) ==
    IF LookupSymbolCurrentScope(an.scope_manager, node.name) # NoSymbol
    THEN AnalysisResult(UnknownType, FALSE,
                        Error(an, "function already defined", node.line, node.column))
    ELSE FunctionExit(node, an.current_function_return_type,
                      FunctionObject(Len(an.heap) + 1),
                      Visit(node.body, FunctionEntered(node, an)))

\* ASTVisitor.visit: node.accept calls the method of the node's class
Visit(node, an) ==
    CASE node.kind = "Literal" -> VisitLiteral(node, an)
      [] node.kind = "Identifier" -> VisitIdentifier(node, an)
      [] node.kind = "Binary" -> VisitBinary(node, an)
      [] node.kind = "Unary" -> VisitUnary(node, an)
      [] node.kind = "Call" -> VisitCall(node, an)
      [] node.kind = "Assignment" -> VisitAssignment(node, an)
      [] node.kind = "ExpressionStatement" -> VisitExpressionStatement(node, an)
      [] node.kind = "FunctionDeclaration" -> VisitFunctionDeclaration(node, an)
      [] node.kind = "Return" -> VisitReturn(node, an)
      [] node.kind = "If" -> VisitIf(node, an)
      [] node.kind = "While" -> VisitWhile(node, an)
      [] node.kind = "Block" -> VisitBlock(node, an)

(***************************************************************************)
(* Inputs.                                                                 *)
(***************************************************************************)
SeqsUpTo(S, n) == UNION {[1..k -> S] : k \in 0..n}

\* the characters of a source string
Chars(str) == [i \in 1..Len(str) |-> SubSeq(str, i, i)]

SrcAlphabet == {"1", ".", "a", "\"", "\\", " ", "\n", "/", "=", "@", "sup2"}

\* sources in which an expected token is missing
MissingSemicolon == Chars("x = 42")
MissingRightParen == Chars("func add(a, b {")
MissingExpression == Chars("x = ;")
MissingRightBrace == Chars("{ x = 42;")

AddProgram == Chars("func add(a,b){return a+b;} x = add(1,2);")

FixedSources ==
    {Chars("null"), Chars("true"), Chars("false"), Chars("x = null;"),
     Chars("123.toString"), Chars("x = 123 + 456"), Chars("\"unterm"),
     Chars("x=\"a\\n\"; //c\n1.5"),
     MissingSemicolon, MissingRightParen, MissingExpression, MissingRightBrace,
     AddProgram}

Sources == SeqsUpTo(SrcAlphabet, MaxSrcLen) \cup FixedSources

\* The token the lexer gives for a word of a token-level input.
TokenOfWord(w, l, c) ==
    CASE w \in {"a", "b", "c", "d", "e", "f", "x", "y", "add"} -> Token("IDENTIFIER", StrV(w), l, c)
      [] w = "1" -> Token("INTEGER", IntV(1), l, c)
      [] w = "2" -> Token("INTEGER", IntV(2), l, c)
      [] w = "3" -> Token("INTEGER", IntV(3), l, c)
      [] w = "42" -> Token("INTEGER", IntV(42), l, c)
      [] w = "1.5" -> Token("FLOAT", FloatV(w), l, c)
      [] w = "'s'" -> Token("STRING", StrV("s"), l, c)
      [] w = "true" -> Token("BOOLEAN", BoolV(TRUE), l, c)
      [] w = "false" -> Token("BOOLEAN", BoolV(FALSE), l, c)
      [] w = "null" -> Token("BOOLEAN", NoneV, l, c)
      [] w \in {"func", "return", "if", "else", "while", "for"} -> Token(KEYWORDS(w), StrV(w), l, c)
      [] w = "==" -> Token("EQUAL", StrV(w), l, c)
      [] w = "!=" -> Token("NOT_EQUAL", StrV(w), l, c)
      [] w = "<=" -> Token("LESS_EQUAL", StrV(w), l, c)
      [] w = ">=" -> Token("GREATER_EQUAL", StrV(w), l, c)
      [] w = "&&" -> Token("AND", StrV(w), l, c)
      [] w = "||" -> Token("OR", StrV(w), l, c)
      [] w = "\n" -> Token("NEWLINE", StrV(w), l, c)
      [] OTHER -> Token(SingleCharTokens(w), StrV(w), l, c)

\* The token list of a sequence of words on one line, closed by EndOfFile.
TokensOf(words) ==
    [i \in 1..(Len(words) + 1) |->
        IF i <= Len(words) THEN TokenOfWord(words[i], 1, i)
        ELSE Token("EOF", NoneV, 1, i)]

ParseAlphabet == {"x", "1", "=", "-", ";", "}", "return"}

BinaryOperatorWords ==
    {"||", "&&", "==", "!=", "<", ">=", "+", "-", "*", "/", "="}

Operands == <<"a", "b", "c", "d", "e">>

\* a op1 b op2 c ... ; with the given operators
ChainOf(ops) ==
    [i \in 1..(2 * Len(ops) + 2) |->
        IF i = 2 * Len(ops) + 2 THEN ";"
        ELSE IF i % 2 = 1 THEN Operands[(i + 1) \div 2]
        ELSE ops[i \div 2]]

OperatorChains == {ChainOf(ops) : ops \in SeqsUpTo(BinaryOperatorWords, MaxOps)}

FixedPrograms ==
    {<<"x", "=", "42">>,
     <<"func", "add", "(", "a", ",", "b", "{">>,
     <<"x", "=", ";">>,
     <<"{", "x", "=", "42", ";">>,
     <<"(", "1", "+", "2", ")", "*", "3", ";">>,
     <<"a", "=", "b", "=", "42", ";">>,
     <<"func", "add", "(", "a", ",", "b", ")", "{", "return", "a", "+", "b", ";", "}",
       "x", "=", "add", "(", "1", ",", "2", ")", ";">>,
     <<"if", "(", "x", ")", "y", "=", ";", "else", "{", "y", "=", "2", ";", "}", "\n",
       "x", "=", "1", ";">>,
     <<"while", "(", "x", "<", "3", ")", "{", "x", "=", "x", "+", "1", ";", "}">>,
     <<"return", ";", "return", "-", "x", ";", "f", "(", ")", "(", "1", ")", ";">>,
     <<"func", "f", "(", ")", "{", "}", "func", "(", ")", "func", "f", "(", "1", ")",
       "func", "f", "(", "a", ",", ")">>,
     <<"(", "1", ";", "f", "(", "1", ",", ";", "f", "(", "1", "x", ";", "(", ")", ";">>,
     <<"if", "x", ";", "if", "(", "x", ";", "if", "(", ";", "while", "(", "x", ")", ";",
       "while", "x", ";", "if", "(", "x", ")", "x", ";", "else", ";">>}

\* what precedes the body of an if, of a while, and the branch after else
BodyOpeners ==
    {<<"if", "(", "x", ")">>, <<"while", "(", "x", ")">>,
     <<"if", "(", "x", ")", "y", ";", "else">>}

\* the malformed statement y = ; as that body, then the well-formed a ;
MalformedBody(opener) == opener \o <<"y", "=", ";", "a", ";">>

MalformedBodies == {MalformedBody(opener) : opener \in BodyOpeners}

ParseInputs ==
    SeqsUpTo(ParseAlphabet, MaxTokens) \cup OperatorChains \cup FixedPrograms
    \cup MalformedBodies

FunctionNames == {"add", "f"}

ParameterNames == <<"a", "b", "c">>

IntegerArguments == <<"1", "2", "3">>

ArithmeticOperatorChars == {"+", "-", "*", "/", "%"}

RECURSIVE Separated(_, _, _)
\* the first n of items with sep between them
Separated(items, n, sep) ==
    IF n = 1 THEN <<items[1]>> ELSE Separated(items, n - 1, sep) \o <<sep, items[n]>>

\* func name(a,b){return a op b;} x = name(1,2); with n parameters and arguments;
\* the expression of one parameter is a op a
ArithmeticFunctionProgram(name, n, op) ==
    Chars("func ") \o Chars(name) \o <<"(">> \o Separated(ParameterNames, n, ",")
    \o Chars("){return ")
    \o (IF n = 1 THEN <<"a", op, "a">> ELSE Separated(ParameterNames, n, op))
    \o Chars(";} x = ") \o Chars(name) \o <<"(">> \o Separated(IntegerArguments, n, ",")
    \o Chars(");")

ArithmeticFunctionPrograms ==
    {ArithmeticFunctionProgram(name, n, op) :
        name \in FunctionNames, n \in 1..MaxParameters, op \in ArithmeticOperatorChars}

\* what opens a block: a block statement, the branch of an if, the body of a while,
\* the body of a function
BlockOpeners == {"{", "if (true) {", "while (true) {", "func f() {"}

\* x assigned at top level, y first assigned inside a block, both used in the block
\* and after it
ScopeProgram(opener, literal) ==
    Chars("x = ") \o Chars(literal) \o Chars("; ") \o Chars(opener)
    \o Chars(" y = x; x; y; } x; y;")

ScopePrograms ==
    {ScopeProgram(opener, literal) : opener \in BlockOpeners, literal \in {"1", "true"}}

\* the first n of items with sep between them, none for n = 0
Listed(items, n, sep) == IF n = 0 THEN <<>> ELSE Separated(items, n, sep)

FunctionBodies == {"", "return 1;", "return 's';"}

\* func f(a,b){body} x = f(1,2); with n parameters and k arguments
CallProgram(n, k, body) ==
    Chars("func f(") \o Listed(ParameterNames, n, ",") \o Chars("){") \o Chars(body)
    \o Chars("} x = f(") \o Listed(IntegerArguments, k, ",") \o Chars(");")

\* x = len(1,2); with k arguments: len is a builtin of one parameter
BuiltinCallProgram(k) ==
    Chars("x = len(") \o Listed(IntegerArguments, k, ",") \o Chars(");")

CallPrograms ==
    {CallProgram(n, k, body) :
        n \in 0..MaxParameters, k \in 0..MaxParameters, body \in FunctionBodies}
    \cup {BuiltinCallProgram(k) : k \in 0..MaxParameters}

\* x = value; for a name x no scope has
ImplicitValues == {"1", "1.5", "'s'", "true", "null", "y", "len", "len(1)", "-1", "1 < 2"}

ImplicitProgram(value) == Chars("x = ") \o Chars(value) \o Chars(";")

ImplicitPrograms == {ImplicitProgram(value) : value \in ImplicitValues}

\* conditions of each kind of type; u, p and q are names no scope has
Conditions == {"1", "1.5", "'s'", "true", "null", "u", "len", "1 < 2", "len(1)"}

ConditionForms == {"if", "if else", "while"}

\* if (c) p;   if (c) p; else q;   while (c) p;
ConditionProgram(form, c) ==
    Chars(IF form = "while" THEN "while (" ELSE "if (") \o Chars(c) \o Chars(") p;")
    \o (IF form = "if else" THEN Chars(" else q;") ELSE <<>>)

ConditionPrograms == {ConditionProgram(form, c) : form \in ConditionForms, c \in Conditions}

\* bodies of a function f by their return statements
ReturnBodies ==
    {"", "return;", "return 1;", "return 's';", "return 1; return 's';", "return u;",
     "if (true) return 1.5;", "return f();"}

\* f with such a body and a recursive call in it; then a second declaration of
\* f, an assignment to f and a call of f
ReturnProgram(body) ==
    Chars("func f() { ") \o Chars(body)
    \o Chars(" x = f(); x = 's'; } func f() { return true; } f = 1.5; y = f(); y = 's';")

ReturnPrograms == {ReturnProgram(body) : body \in ReturnBodies}

\* values assigned in a row; u is a name no scope has
AssignedValues == {"1", "'s'", "1.5", "u"}

AssignmentRuns == [1..3 -> AssignedValues]

\* the assignments of a run to the name, one statement each
AssignmentsTo(name, run) ==
    Chars(name \o " = " \o run[1] \o "; " \o name \o " = " \o run[2] \o "; "
          \o name \o " = " \o run[3] \o ";")

\* the run assigned to the variable x, and to the parameter a of a function
VariableProgram(run) == AssignmentsTo("x", run)

ParameterProgram(run) == Chars("func f(a) { ") \o AssignmentsTo("a", run) \o Chars(" }")

AssignmentPrograms ==
    {VariableProgram(run) : run \in AssignmentRuns}
    \cup {ParameterProgram(run) : run \in AssignmentRuns}

\* a return of the enclosing function or none, and one of the nested function
OuterReturns == {"", "return 1;"}

InnerReturns == {"", "return 's';"}

\* a return at the top level, then f that declares g between two places for a
\* return of its own, then another return at the top level
NestedProgram(before, inner, after) ==
    Chars("return true; func f() { ") \o Chars(before) \o Chars(" func g() { ")
    \o Chars(inner) \o Chars(" } ") \o Chars(after) \o Chars(" } return 1;")

NestedPrograms ==
    {NestedProgram(before, inner, after) :
        before \in OuterReturns, inner \in InnerReturns, after \in OuterReturns}

\* one use of the unresolved identifier u in each enclosing construct: an
\* assignment to the typed variable x, a binary and a unary operation, a call
\* with u as callee, the condition of an if and of a while
UnresolvedUses ==
    {"x = 1; x = u;", "u + 1;", "1 < u;", "-u;", "!u;", "u();", "if (u) 1;",
     "while (u) 1;"}

UnresolvedPrograms == {Chars(use) : use \in UnresolvedUses}

AnalysisSources ==
    ArithmeticFunctionPrograms \cup ScopePrograms \cup CallPrograms \cup ImplicitPrograms
    \cup ConditionPrograms \cup ReturnPrograms \cup AssignmentPrograms
    \cup NestedPrograms \cup UnresolvedPrograms
    \cup {Chars("x = y;"), Chars("y; y = 1;"),
          Chars("func add(a,b){return a+b;} x = add(1);"),
          Chars("func f(){return 1;} x = f();"),
          Chars("func f(a,a){return a+a;} x = f(1,2);"),
          Chars("func f(){return f;} x = 1; x = f;"),
          Chars("func f(){return f;} func g(){return f; return f;}")}

(***************************************************************************)
(* Lexer.tokenize: one step is one turn of its loop.                       *)
(***************************************************************************)
LexIdle ==
    /\ source = <<>> /\ position = 0 /\ line = 1 /\ column = 1 /\ lexpc = "idle"

ParseIdle ==
    /\ current = 0 /\ statements = <<>> /\ parsepc = "idle" /\ recoveries = <<>>

NoQuery ==
    [fn |-> "none", operator |-> "none", left |-> NoType, right |-> NoType,
     token_type |-> "none", value |-> NoneV, result |-> NoType, holds |-> FALSE]

TypeIdle == typeq = NoQuery /\ typepc = "idle"

NoAnalyzer == [scope_manager |-> ScopeManager, error_list |-> <<>>,
               current_function_return_type |-> NoType, heap |-> <<>>]

SemIdle == analyzer = NoAnalyzer /\ next_statement = 0 /\ analyzepc = "idle"

\* no call made yet: calls counts the calls, popped collects the symbols of the
\* scopes exit_scope has popped
NoCall ==
    [op |-> "none", name |-> "", symbol |-> NoSymbol, returned |-> FALSE,
     found |-> NoSymbol, before |-> ScopeManager, calls |-> 0, popped |-> {}]

ScopeIdle == scope_manager = ScopeManager /\ scope_call = NoCall

NoSecond == [analyzer |-> NoAnalyzer, next_statement |-> 0, pc |-> "idle"]

OtherIdle == ScopeIdle /\ second = NoSecond

LexInit ==
    /\ source \in Sources
    /\ position = 0 /\ line = 1 /\ column = 1
    /\ tokens = <<>>
    /\ lexpc = "run"
    /\ ParseIdle /\ TypeIdle /\ SemIdle /\ OtherIdle

TokenizeStep ==
    /\ lexpc = "run"
    /\ LET r == NextToken(Cursor(position, line, column)) IN
        /\ position' = r.st.position
        /\ line' = r.st.line
        /\ column' = r.st.column
        /\ IF r.status = "ok"
           THEN /\ tokens' = Append(tokens, r.tok)
                /\ lexpc' = IF IsEndOfFile(r.tok) THEN "done" ELSE "run"
           ELSE /\ tokens' = tokens
                /\ lexpc' = r.status
    /\ UNCHANGED <<source, parseVars, typeVars, semVars, otherVars>>

LexNext == TokenizeStep

LexSpec == LexInit /\ [][LexNext]_vars

\* tokenize runs to completion on the calling thread: while its loop is running
\* the next turn is taken.  This is WF_vars(LexNext) with ENABLED <<LexNext>>_vars
\* written out as the condition of the loop, lexpc = "run".
TokenizeFairness == []<>(lexpc # "run") \/ []<><<LexNext>>_vars

LexLiveSpec == LexSpec /\ TokenizeFairness

(***************************************************************************)
(* Parser.parse: skip_newlines, then one step per turn of its loop.        *)
(***************************************************************************)
ParseInit ==
    /\ tokens \in {TokensOf(w) : w \in ParseInputs}
    /\ current = 0 /\ statements = <<>> /\ recoveries = <<>>
    /\ parsepc = "start"
    /\ LexIdle /\ TypeIdle /\ SemIdle /\ OtherIdle

ParseBegin ==
    /\ parsepc = "start"
    /\ current' = SkipNewlines(current)
    /\ parsepc' = "loop"
    /\ UNCHANGED <<statements, recoveries, tokens, lexVars, typeVars, semVars, otherVars>>

\* One turn of the loop of parse, given what parse_statement returned.
ParseStepWith(stmt) ==
    IF stmt.ok
    THEN /\ statements' = IF stmt.node.kind # "None"
                          THEN Append(statements, stmt.node) ELSE statements
         /\ current' = SkipNewlines(stmt.cur)
         /\ recoveries' = recoveries \o stmt.syncs
         /\ parsepc' = "loop"
    ELSE \* a ParserError leaves parse
         /\ current' = stmt.cur
         /\ recoveries' = recoveries \o stmt.syncs
         /\ parsepc' = "ParserError"
         /\ UNCHANGED statements

ParseStep ==
    /\ parsepc = "loop"
    /\ ~AtEnd(current)
    /\ ParseStepWith(ParseStatement(current))
    /\ UNCHANGED <<tokens, lexVars, typeVars, semVars, otherVars>>

ParseEnd ==
    /\ parsepc = "loop"
    /\ AtEnd(current)
    /\ parsepc' = "done"
    /\ UNCHANGED <<current, statements, recoveries, tokens, lexVars, typeVars, semVars, otherVars>>

ParseNext == ParseBegin \/ ParseStep \/ ParseEnd

ParseSpec == ParseInit /\ [][ParseNext]_vars

(***************************************************************************)
(* parse_source: tokenize the source, hand the tokens to a new Parser,     *)
(* parse.                                                                  *)
(***************************************************************************)
ParserNew ==
    /\ lexpc = "done" /\ parsepc = "idle"
    /\ current' = 0
    /\ parsepc' = "start"
    /\ UNCHANGED <<statements, recoveries, tokens, lexVars, typeVars, semVars, otherVars>>

ParseSourceNext == TokenizeStep \/ ParserNew \/ ParseBegin \/ ParseStep \/ ParseEnd

ParseSourceSpec == LexInit /\ [][ParseSourceNext]_vars

(***************************************************************************)
(* The analysis of a source: parse_source, a new analyzer, analyze.  One   *)
(* step of analyze is one turn of the loop of visit_program.               *)
(***************************************************************************)
AnalyzeInit ==
    /\ source \in AnalysisSources
    /\ position = 0 /\ line = 1 /\ column = 1
    /\ tokens = <<>>
    /\ lexpc = "run"
    /\ ParseIdle /\ TypeIdle /\ SemIdle /\ OtherIdle

AnalyzerNew ==
    /\ parsepc = "done" /\ analyzepc = "idle"
    /\ analyzer' = NewAnalyzer
    /\ analyzepc' = "new"
    /\ UNCHANGED <<next_statement, tokens, lexVars, parseVars, typeVars, otherVars>>

\* analyze up to the loop of visit_program: error_list.clear()
AnalyzeBegin ==
    /\ analyzepc = "new"
    /\ analyzer' = [analyzer EXCEPT !.error_list = <<>>]
    /\ next_statement' = 1
    /\ analyzepc' = "visit"
    /\ UNCHANGED <<tokens, lexVars, parseVars, typeVars, otherVars>>

\* One turn of the loop of visit_program, given what visit(stmt) returned.
AnalyzeStepWith(result) ==
    /\ analyzer' = result.an
    /\ IF result.ok
       THEN next_statement' = next_statement + 1 /\ analyzepc' = "visit"
       ELSE next_statement' = next_statement /\ analyzepc' = result.exc

AnalyzeStep ==
    /\ analyzepc = "visit"
    /\ next_statement <= Len(statements)
    /\ AnalyzeStepWith(Visit(statements[next_statement], analyzer))
    /\ UNCHANGED <<tokens, lexVars, parseVars, typeVars, otherVars>>

\* analyze returns the error list
AnalyzeEnd ==
    /\ analyzepc = "visit"
    /\ next_statement > Len(statements)
    /\ analyzepc' = "done"
    /\ UNCHANGED <<analyzer, next_statement, tokens, lexVars, parseVars, typeVars, otherVars>>

AnalyzeNext ==
    \/ TokenizeStep \/ ParserNew \/ ParseBegin \/ ParseStep \/ ParseEnd
    \/ AnalyzerNew \/ AnalyzeBegin \/ AnalyzeStep \/ AnalyzeEnd

AnalyzeSpec == AnalyzeInit /\ [][AnalyzeNext]_vars

(***************************************************************************)
(* C1: for every source, tokenize terminates; the last token of the list   *)
(* it returns is EndOfFile and no earlier token is; for the empty source   *)
(* the list is exactly [EndOfFile].                                        *)
(***************************************************************************)
C1_TokenizeEndsWithEndOfFile ==
    /\ <>(lexpc # "run")
    /\ [](lexpc = "done" =>
            /\ tokens # <<>>
            /\ tokens[Len(tokens)].type = "EOF"
            /\ \A i \in 1..(Len(tokens) - 1) : tokens[i].type # "EOF"
            /\ (source = <<>> => tokens = <<Token("EOF", NoneV, 1, 1)>>))

C1_Witness ==
    /\ lexpc = "done"
    /\ Len(tokens) >= 3
    /\ \E i \in 1..Len(tokens) : tokens[i].type = "NEWLINE"

(***************************************************************************)
(* C9: literal inference gives Int for an Integer token, Float for a Float *)
(* token, String for a String token, Bool for a Boolean token (true or     *)
(* false), Void for a token whose value is None, the literal null as the   *)
(* lexer emits it, and Unknown for anything else.                          *)
(***************************************************************************)
C9_LiteralInference ==
    \A i \in 1..Len(tokens) :
        InferLiteralType(tokens[i].type, tokens[i].value) =
            IF tokens[i].value = NoneV THEN VoidType
            ELSE CASE tokens[i].type = "INTEGER" -> IntType
                   [] tokens[i].type = "FLOAT" -> FloatType
                   [] tokens[i].type = "STRING" -> StringType
                   [] tokens[i].type = "BOOLEAN" -> BoolType
                   [] OTHER -> UnknownType

IsChain(n) ==
    /\ Len(tokens) = 2 * n + 3
    /\ \A i \in 1..(2 * n + 1) :
          IF i % 2 = 1 THEN tokens[i].type = "IDENTIFIER"
          ELSE tokens[i].type \in ArithmeticOps \cup ComparisonOps \cup LogicalOps
                                   \cup {"ASSIGN"}
    /\ tokens[2 * n + 2].type = "SEMICOLON"

ChainPrecedence(i) == Precedence(tokens[2 * i].type)

ChainOperand(i) == IdentifierNode(tokens[2 * i - 1])

\* the node of operator i of the chain over two subtrees
ChainNode(left, i, right) ==
    IF tokens[2 * i].type = "ASSIGN"
    THEN AssignmentNode(left, right, tokens[2 * i].line, tokens[2 * i].column)
    ELSE BinaryNode(left, tokens[2 * i], right)

ParsedAs(expression) ==
    statements = <<ExpressionStatementNode(expression)>>

(***************************************************************************)
(* C4: in a op1 b op2 c with two binary operators of different levels the  *)
(* operator with the higher binding power in the precedence table is the   *)
(* child and the lower one the root, whichever comes first; with a third   *)
(* operator, a op1 b op2 c op3 d with op2 the lowest has op2 at the root   *)
(* over (a op1 b) and (c op3 d).                                           *)
(***************************************************************************)
C4_HigherPrecedenceIsChild ==
    /\ (/\ parsepc = "done" /\ IsChain(2)
        /\ "ASSIGN" \notin {tokens[2].type, tokens[4].type}
        /\ ChainPrecedence(1) # ChainPrecedence(2))
       => IF ChainPrecedence(1) > ChainPrecedence(2)
          THEN ParsedAs(ChainNode(ChainNode(ChainOperand(1), 1, ChainOperand(2)), 2,
                                  ChainOperand(3)))
          ELSE ParsedAs(ChainNode(ChainOperand(1), 1,
                                  ChainNode(ChainOperand(2), 2, ChainOperand(3))))
    /\ (/\ parsepc = "done" /\ IsChain(3)
        /\ "ASSIGN" \notin {tokens[2].type, tokens[4].type, tokens[6].type}
        /\ ChainPrecedence(2) < ChainPrecedence(1)
        /\ ChainPrecedence(2) < ChainPrecedence(3))
       => ParsedAs(ChainNode(ChainNode(ChainOperand(1), 1, ChainOperand(2)), 2,
                             ChainNode(ChainOperand(3), 3, ChainOperand(4))))

C4_Witness ==
    /\ parsepc = "done"
    /\ tokens = TokensOf(<<"a", "+", "b", "*", "c", ";">>)
    /\ ParsedAs(BinaryNode(ChainOperand(1), tokens[2],
                           BinaryNode(ChainOperand(2), tokens[4], ChainOperand(3))))

(***************************************************************************)
(* C5: operators of the same level group as the precedence table's         *)
(* associativity says: a op b op c with binary operators of one level is   *)
(* ((a op b) op c), and a = b = v is Assignment(a, Assignment(b, v)).      *)
(***************************************************************************)
C5_SameLevelAssociativity ==
    (/\ parsepc = "done" /\ IsChain(2)
     /\ ChainPrecedence(1) = ChainPrecedence(2))
    => IF Associativity(tokens[2].type) = "left"
       THEN ParsedAs(ChainNode(ChainNode(ChainOperand(1), 1, ChainOperand(2)), 2,
                               ChainOperand(3)))
       ELSE /\ tokens[2].type = "ASSIGN"
            /\ ParsedAs(ChainNode(ChainOperand(1), 1,
                                   ChainNode(ChainOperand(2), 2, ChainOperand(3))))

C5_Witness ==
    /\ parsepc = "done"
    /\ tokens = TokensOf(<<"a", "=", "b", "=", "c", ";">>)
    /\ ParsedAs(AssignmentNode(ChainOperand(1),
                               AssignmentNode(ChainOperand(2), ChainOperand(3), 1, 4),
                               1, 2))

\* the return type of the function type of the function symbol of that name
ReturnTypeOf(name) ==
    analyzer.heap[LookupSymbol(analyzer.scope_manager, name).type.id].ret

(***************************************************************************)
(* C10 as claimed: for func add(a,b){return a+b;} x = add(1,2); and any    *)
(* function whose only return is an arithmetic expression over its         *)
(* parameters, called with Integer arguments, analysis yields no           *)
(* diagnostic and the function symbol's inferred return type is Int.       *)
(***************************************************************************)
C10_InferredReturnTypeInt ==
    (analyzepc = "done" /\ source \in ArithmeticFunctionPrograms)
    => /\ analyzer.error_list = <<>>
       /\ ReturnTypeOf(statements[1].name) = IntType

(***************************************************************************)
(* C10 as amended: for that program, and any newly named function with     *)
(* distinct parameters whose only return is an arithmetic expression over  *)
(* its parameters, called with as many Integer arguments as it has         *)
(* parameters and its result assigned to a new variable, analysis yields   *)
(* no diagnostic and the function symbol's inferred return type is         *)
(* Unknown; so is the type of the variable.                                *)
(***************************************************************************)
C10_InferredReturnTypeUnknown ==
    (analyzepc = "done" /\ source \in ArithmeticFunctionPrograms)
    => /\ analyzer.error_list = <<>>
       /\ ReturnTypeOf(statements[1].name) = UnknownType
       /\ LookupSymbol(analyzer.scope_manager, "x").type = UnknownType

C10_Witness ==
    /\ analyzepc = "done"
    /\ source = AddProgram
    /\ analyzer.error_list = <<>>
    /\ LookupSymbol(analyzer.scope_manager, "add").kind = "function"
    /\ LookupSymbol(analyzer.scope_manager, "add").defined
    /\ ReturnTypeOf("add") = UnknownType

(***************************************************************************)
(* C3: a source in which an expected token is missing (the ';' after an    *)
(* expression, the ')' of a parameter list, the '}' of a block, the        *)
(* expression after '=') makes parse_source raise a ParserError to its     *)
(* caller: parse does not return.                                          *)
(***************************************************************************)
C3_MissingTokenRaises ==
    source \in {MissingSemicolon, MissingRightParen, MissingExpression, MissingRightBrace}
    => parsepc # "done"

(***************************************************************************)
(* The type system's entry points, each asked one query.                   *)
(***************************************************************************)
PrimTypes == {Prim(v) : v \in PrimKinds}

\* the primitive kinds that occur inside the function types of the queries
FuncPrims == {IntType, FloatType, UnknownType}

FuncTypes == {FuncType(ps, r) : ps \in SeqsUpTo(FuncPrims, MaxArity), r \in FuncPrims}

Types == PrimTypes \cup FuncTypes

OperatorTokens ==
    ArithmeticOps \cup ComparisonOps \cup LogicalOps \cup {"ASSIGN", "NOT"}

LiteralTokenTypes == {"INTEGER", "FLOAT", "STRING", "BOOLEAN", "NULL", "IDENTIFIER", "EOF"}

LiteralValues == {IntV(1), FloatV("1.5"), StrV("s"), BoolV(TRUE), BoolV(FALSE), NoneV}

Query(fn, operator, left, right, token_type, value) ==
    [fn |-> fn, operator |-> operator, left |-> left, right |-> right,
     token_type |-> token_type, value |-> value, result |-> NoType, holds |-> FALSE]

BinaryQueries ==
    {Query("check_binary_operation", op, l, r, "none", NoneV) :
        op \in OperatorTokens, l \in Types, r \in Types}

UnaryQueries ==
    {Query("check_unary_operation", op, NoType, r, "none", NoneV) :
        op \in OperatorTokens, r \in Types}

RelationQueries ==
    {Query(fn, "none", l, r, "none", NoneV) :
        fn \in {"check_assignment", "is_assignable_from", "is_compatible_with"},
        l \in Types, r \in Types}

LiteralQueries ==
    {Query("infer_literal_type", "none", NoType, NoType, tt, v) :
        tt \in LiteralTokenTypes, v \in LiteralValues}

TypeInit ==
    /\ \/ typeq \in BinaryQueries
       \/ typeq \in UnaryQueries
       \/ typeq \in RelationQueries
       \/ typeq \in LiteralQueries
    /\ typepc = "ask"
    /\ tokens = <<>>
    /\ LexIdle /\ ParseIdle /\ SemIdle /\ OtherIdle

Answer(result, holds) ==
    /\ typeq' = [typeq EXCEPT !.result = result, !.holds = holds]
    /\ typepc' = "answered"
    /\ UNCHANGED <<tokens, lexVars, parseVars, semVars, otherVars>>

CheckBinaryOperationCall ==
    /\ typepc = "ask" /\ typeq.fn = "check_binary_operation"
    /\ Answer(CheckBinaryOperation(typeq.left, typeq.operator, typeq.right), FALSE)

CheckUnaryOperationCall ==
    /\ typepc = "ask" /\ typeq.fn = "check_unary_operation"
    /\ Answer(CheckUnaryOperation(typeq.operator, typeq.right), FALSE)

CheckAssignmentCall ==
    /\ typepc = "ask" /\ typeq.fn = "check_assignment"
    /\ Answer(NoType, CheckAssignment(typeq.left, typeq.right))

IsAssignableFromCall ==
    /\ typepc = "ask" /\ typeq.fn = "is_assignable_from"
    /\ Answer(NoType, IsAssignableFrom(typeq.left, typeq.right))

IsCompatibleWithCall ==
    /\ typepc = "ask" /\ typeq.fn = "is_compatible_with"
    /\ Answer(NoType, IsCompatibleWith(typeq.left, typeq.right))

InferLiteralTypeCall ==
    /\ typepc = "ask" /\ typeq.fn = "infer_literal_type"
    /\ Answer(InferLiteralType(typeq.token_type, typeq.value), FALSE)

TypeNext ==
    \/ CheckBinaryOperationCall \/ CheckUnaryOperationCall \/ CheckAssignmentCall
    \/ IsAssignableFromCall \/ IsCompatibleWithCall \/ InferLiteralTypeCall

TypeSpec == TypeInit /\ [][TypeNext]_vars

Answered(fn) == typepc = "answered" /\ typeq.fn = fn

(***************************************************************************)
(* C6: check_binary_operation on an arithmetic operator and two primitive  *)
(* types returns Unknown if either operand is Unknown; otherwise Float if  *)
(* both are numeric and one is Float, Int if both are Int, String only for *)
(* + on two Strings, and no result for every other pair, String with       *)
(* String under -, *, /, % included.                                       *)
(***************************************************************************)
C6_ArithmeticResult ==
    (/\ Answered("check_binary_operation")
     /\ typeq.operator \in ArithmeticOps
     /\ IsPrim(typeq.left) /\ IsPrim(typeq.right))
    => typeq.result =
         IF "Unknown" \in {typeq.left.v, typeq.right.v} THEN UnknownType
         ELSE IF {typeq.left.v, typeq.right.v} \subseteq {"Int", "Float"}
         THEN IF "Float" \in {typeq.left.v, typeq.right.v} THEN FloatType ELSE IntType
         ELSE IF typeq.operator = "PLUS" /\ typeq.left.v = "String" /\ typeq.right.v = "String"
         THEN StringType
         ELSE NoType

(***************************************************************************)
(* C7: over all pairs of primitive kinds, is_assignable_from and           *)
(* check_assignment are true exactly when the kinds are identical, or the  *)
(* target is Float and the value is Int, or the target or the value is     *)
(* Unknown.                                                                *)
(***************************************************************************)
C7_AssignableExactly ==
    (/\ Answered("check_assignment") \/ Answered("is_assignable_from")
     /\ IsPrim(typeq.left) /\ IsPrim(typeq.right))
    => (typeq.holds <=> \/ typeq.left.v = typeq.right.v
                        \/ typeq.left.v = "Float" /\ typeq.right.v = "Int"
                        \/ typeq.left.v = "Unknown"
                        \/ typeq.right.v = "Unknown")

SymbolNames == {"x", "y"}

ScopeInit ==
    /\ scope_manager = ScopeManager /\ scope_call = NoCall
    /\ second = NoSecond
    /\ tokens = <<>> /\ LexIdle /\ ParseIdle /\ TypeIdle /\ SemIdle

\* the record of a call: what it was given, what it returned
Called(op, name, symbol, returned, found, popped) ==
    [op |-> op, name |-> name, symbol |-> symbol, returned |-> returned,
     found |-> found, before |-> scope_manager, calls |-> scope_call.calls + 1,
     popped |-> scope_call.popped \cup popped]

SymbolsOf(table) == {table.symbols[i] : i \in 1..Len(table.symbols)}

EnterScopeCall ==
    /\ scope_call.calls < MaxCalls
    /\ Len(scope_manager.scope_stack) < MaxDepth
    /\ scope_manager' = EnterScope(scope_manager, "scope")
    /\ scope_call' = Called("enter_scope", "scope", NoSymbol, FALSE, NoSymbol, {})
    /\ UNCHANGED <<second, tokens, lexVars, parseVars, typeVars, semVars>>

ExitScopeCall ==
    /\ scope_call.calls < MaxCalls
    /\ scope_manager' = ExitScope(scope_manager)
    /\ scope_call' =
          Called("exit_scope", "", NoSymbol, scope_manager.scope_stack # <<>>, NoSymbol,
                 IF scope_manager.scope_stack # <<>>
                 THEN SymbolsOf(scope_manager.scope_stack[Len(scope_manager.scope_stack)])
                 ELSE {})
    /\ UNCHANGED <<second, tokens, lexVars, parseVars, typeVars, semVars>>

DefineSymbolWith(symbol) ==
    /\ scope_manager' = DefineSymbol(scope_manager, symbol)
    /\ scope_call' = Called("define_symbol", symbol.name, symbol,
                            CanDefineSymbol(scope_manager, symbol), NoSymbol, {})

DefineSymbolCall ==
    /\ scope_call.calls < MaxCalls
    /\ \E name \in SymbolNames :
          DefineSymbolWith(VariableSymbol(name, IntType, scope_call.calls + 1, 1, FALSE))
    /\ UNCHANGED <<second, tokens, lexVars, parseVars, typeVars, semVars>>

LookupSymbolCall ==
    /\ scope_call.calls < MaxCalls
    /\ \E name \in SymbolNames :
          scope_call' = Called("lookup_symbol", name, NoSymbol, FALSE,
                               LookupSymbol(scope_manager, name), {})
    /\ UNCHANGED <<scope_manager, second, tokens, lexVars, parseVars, typeVars, semVars>>

LookupSymbolCurrentScopeCall ==
    /\ scope_call.calls < MaxCalls
    /\ \E name \in SymbolNames :
          scope_call' = Called("lookup_symbol_current_scope", name, NoSymbol, FALSE,
                               LookupSymbolCurrentScope(scope_manager, name), {})
    /\ UNCHANGED <<scope_manager, second, tokens, lexVars, parseVars, typeVars, semVars>>

ScopeNext ==
    \/ EnterScopeCall \/ ExitScopeCall \/ DefineSymbolCall
    \/ LookupSymbolCall \/ LookupSymbolCurrentScopeCall

ScopeSpec == ScopeInit /\ [][ScopeNext]_vars

\* the scope on top of the stack of a scope_manager
TopScope(m) == m.scope_stack[Len(m.scope_stack)]

(***************************************************************************)
(* C11: define returns false and leaves the scope unchanged when the name  *)
(* is already in the current top scope, a later lookup still giving the    *)
(* first symbol and not the rejected one; it returns true and inserts when *)
(* the name is only in an outer scope.                                     *)
(***************************************************************************)
C11_DefineRejectsDuplicate ==
    (scope_call.op = "define_symbol" /\ scope_call.before.scope_stack # <<>>)
    => IF TableExists(TopScope(scope_call.before), scope_call.name)
       THEN /\ ~scope_call.returned
            /\ scope_manager = scope_call.before
            /\ LookupSymbol(scope_manager, scope_call.name)
                  = TableLookup(TopScope(scope_call.before), scope_call.name)
            /\ LookupSymbol(scope_manager, scope_call.name) # scope_call.symbol
       ELSE /\ scope_call.returned
            /\ SymbolsOf(TopScope(scope_manager))
                  = SymbolsOf(TopScope(scope_call.before)) \cup {scope_call.symbol}
            /\ LookupSymbol(scope_manager, scope_call.name) = scope_call.symbol
            /\ \A d \in 1..(Len(scope_manager.scope_stack) - 1) :
                  scope_manager.scope_stack[d] = scope_call.before.scope_stack[d]

\* x defined in the outer scope, shadowed in the inner one, then defined there again
C11_Witness ==
    /\ scope_call.op = "define_symbol" /\ ~scope_call.returned
    /\ Len(scope_manager.scope_stack) = 2
    /\ TableExists(scope_manager.scope_stack[1], scope_call.name)
    /\ TableLookup(scope_manager.scope_stack[1], scope_call.name)
          # TableLookup(scope_manager.scope_stack[2], scope_call.name)

\* the scopes of the stack that hold the name of the last call
Holders == {d \in 1..Len(scope_manager.scope_stack) :
               TableExists(scope_manager.scope_stack[d], scope_call.name)}

(***************************************************************************)
(* C12: after any sequence of enter_scope, exit_scope and define calls,    *)
(* lookup gives the symbol defined under the name in the innermost scope   *)
(* on the stack that holds it, none if no scope on the stack holds it, and *)
(* never a symbol of a popped scope; lookup in the current scope sees only *)
(* the top scope.                                                          *)
(***************************************************************************)
C12_LookupInnermost ==
    /\ scope_call.op = "lookup_symbol"
       => /\ scope_call.found =
                IF Holders = {} THEN NoSymbol
                ELSE TableLookup(
                        scope_manager.scope_stack[CHOOSE d \in Holders :
                                                     \A e \in Holders : e <= d],
                        scope_call.name)
          /\ scope_call.found \notin scope_call.popped
    /\ scope_call.op = "lookup_symbol_current_scope"
       => /\ scope_call.found =
                IF scope_manager.scope_stack = <<>> THEN NoSymbol
                ELSE TableLookup(TopScope(scope_manager), scope_call.name)
          /\ scope_call.found \notin scope_call.popped

\* the name defined in the outer scope, shadowed in an inner scope since popped,
\* then looked up: the outer symbol is found
C12_Witness ==
    /\ scope_call.op = "lookup_symbol"
    /\ Len(scope_manager.scope_stack) = 1
    /\ scope_call.found # NoSymbol
    /\ \E sym \in scope_call.popped : sym.name = scope_call.name

(***************************************************************************)
(* C13: after any sequence of enter_scope and exit_scope calls, whenever   *)
(* the scope stack is non-empty its bottom-most scope is the scope the     *)
(* manager keeps as its global scope, the first one ever pushed.           *)
(***************************************************************************)
C13_BottomIsGlobalScope ==
    scope_manager.scope_stack # <<>>
    => scope_manager.scope_stack[1].id = scope_manager.global_scope

(***************************************************************************)
(* C14: a name first assigned inside a block stops resolving when the      *)
(* block is left: its use after the block gives an undefined-identifier    *)
(* diagnostic, the only one, while the name assigned in the enclosing      *)
(* scope before the block resolves inside and after the block.             *)
(***************************************************************************)
C14_BlockScopedName ==
    (analyzepc = "done" /\ source \in ScopePrograms)
    => /\ analyzer.error_list
             = <<SemanticError("undefined identifier", 1, Len(source) - 1)>>
       /\ LookupSymbol(analyzer.scope_manager, "x").kind = "variable"
       /\ LookupSymbol(analyzer.scope_manager, "y") = NoSymbol

C14_Witness ==
    /\ analyzepc = "done"
    /\ source = ScopeProgram("{", "1")
    /\ Len(analyzer.error_list) = 1
    /\ Len(statements) = 4

\* what C15 says of x = callee(k arguments); where the callee has n parameters:
\* x is a new variable, so it takes the type of the call expression
CallOutcome(callee, n, k) ==
    IF n # k
    THEN /\ analyzer.error_list
               = <<SemanticError("argument count mismatch", 1,
                                 Len(source) - 2 - Len(Listed(IntegerArguments, k, ",")))>>
         /\ LookupSymbol(analyzer.scope_manager, "x").type = UnknownType
    ELSE /\ analyzer.error_list = <<>>
         /\ LookupSymbol(analyzer.scope_manager, "x").type = ReturnTypeOf(callee)

(***************************************************************************)
(* C15: a call whose argument count differs from the parameter count of    *)
(* the callee's function type gives exactly one diagnostic, the count      *)
(* mismatch, and the call expression has the Unknown type; a call with the *)
(* matching count gives no diagnostic and has the function's return type.  *)
(***************************************************************************)
C15_CallArity ==
    analyzepc = "done"
    => /\ \A n \in 0..MaxParameters, k \in 0..MaxParameters, body \in FunctionBodies :
             source = CallProgram(n, k, body)
             => /\ CallOutcome("f", n, k)
                /\ ReturnTypeOf("f") = CASE body = "" -> VoidType
                                         [] body = "return 1;" -> IntType
                                         [] OTHER -> StringType
       /\ \A k \in 0..MaxParameters :
             source = BuiltinCallProgram(k)
             => CallOutcome("len", 1, k) /\ ReturnTypeOf("len") = IntType

C15_Witness ==
    /\ analyzepc = "done"
    /\ source = CallProgram(2, 1, "return 1;")
    /\ Len(analyzer.error_list) = 1
    /\ analyzer.error_list[1].message = "argument count mismatch"
    /\ LookupSymbol(analyzer.scope_manager, "x").type = UnknownType

\* a statement that assigns to a bare identifier
IsIdentifierAssignment(stmt) ==
    /\ stmt.kind = "ExpressionStatement"
    /\ stmt.expression.kind = "Assignment"
    /\ stmt.expression.target.kind = "Identifier"

\* what C16 says of the visit of such an assignment: value_result is what the
\* visit of its value returned, result what the visit of the assignment returned
ImplicitlyDeclared(node, value_result, result) ==
    (/\ value_result.ok
     /\ LookupSymbol(value_result.an.scope_manager, node.target.name) = NoSymbol)
    => /\ result.ok
       /\ result.an.error_list = value_result.an.error_list
       /\ LookupSymbolCurrentScope(result.an.scope_manager, node.target.name)
             = VariableSymbol(node.target.name, value_result.type,
                              node.line, node.column, TRUE)
       /\ SymbolsOf(TopScope(result.an.scope_manager))
             = SymbolsOf(TopScope(value_result.an.scope_manager))
               \cup {LookupSymbolCurrentScope(result.an.scope_manager, node.target.name)}
       /\ \A d \in 1..(Len(result.an.scope_manager.scope_stack) - 1) :
             result.an.scope_manager.scope_stack[d]
                = value_result.an.scope_manager.scope_stack[d]

\* the same of a statement visited by an analyzer in the state an
DeclaresImplicitly(stmt, an) ==
    IsIdentifierAssignment(stmt)
    => ImplicitlyDeclared(stmt.expression, Visit(stmt.expression.value, an),
                          Visit(stmt, an))

(***************************************************************************)
(* C16: an assignment whose target is a bare identifier that resolves in   *)
(* no scope on the stack adds no diagnostic for the target and defines, in *)
(* the innermost current scope, a new variable symbol with the value's     *)
(* type, marked initialized.  It is stated of the statement visit_program  *)
(* visits next and, when that is a block, of the block's first statement   *)
(* in the scope the block enters.                                          *)
(***************************************************************************)
C16_ImplicitDeclaration ==
    (analyzepc = "visit" /\ next_statement <= Len(statements))
    => /\ DeclaresImplicitly(statements[next_statement], analyzer)
       /\ (statements[next_statement].kind = "Block"
           /\ statements[next_statement].statements # <<>>)
          => DeclaresImplicitly(statements[next_statement].statements[1],
                                [analyzer EXCEPT !.scope_manager = EnterScope(@, "block")])

\* after x = 1.5; on a new analyzer: x is a Float variable of the global scope
C16_Witness ==
    /\ analyzepc = "done"
    /\ source = ImplicitProgram("1.5")
    /\ analyzer.error_list = <<>>
    /\ LookupSymbolCurrentScope(analyzer.scope_manager, "x")
          = VariableSymbol("x", FloatType, 1, 3, TRUE)

(***************************************************************************)
(* A second analyzer instance, made and run on the AST the first one is    *)
(* given, its steps interleaved with those of the first.  An instance      *)
(* keeps its type system, scope manager and error list in its own fields.  *)
(***************************************************************************)
SecondNew ==
    /\ parsepc = "done" /\ second.pc = "idle"
    /\ second' = [analyzer |-> NewAnalyzer, next_statement |-> 0, pc |-> "new"]
    /\ UNCHANGED <<tokens, lexVars, parseVars, typeVars, semVars, scopeVars>>

SecondBegin ==
    /\ second.pc = "new"
    /\ second' = [analyzer |-> [second.analyzer EXCEPT !.error_list = <<>>],
                  next_statement |-> 1, pc |-> "visit"]
    /\ UNCHANGED <<tokens, lexVars, parseVars, typeVars, semVars, scopeVars>>

SecondStepWith(result) ==
    second' = [analyzer |-> result.an,
               next_statement |-> IF result.ok THEN second.next_statement + 1
                                  ELSE second.next_statement,
               pc |-> IF result.ok THEN "visit" ELSE result.exc]

\* a step of the second instance that visits with the scope manager of the first
SecondStepSharedScopes ==
    /\ second.pc = "visit"
    /\ second.next_statement <= Len(statements)
    /\ SecondStepWith(Visit(statements[second.next_statement],
                            [second.analyzer EXCEPT
                                !.scope_manager =
                                    IF analyzepc = "idle" THEN @
                                    ELSE analyzer.scope_manager]))
    /\ UNCHANGED <<tokens, lexVars, parseVars, typeVars, semVars, scopeVars>>

SecondStep ==
    /\ second.pc = "visit"
    /\ second.next_statement <= Len(statements)
    /\ SecondStepWith(Visit(statements[second.next_statement], second.analyzer))
    /\ UNCHANGED <<tokens, lexVars, parseVars, typeVars, semVars, scopeVars>>

SecondEnd ==
    /\ second.pc = "visit"
    /\ second.next_statement > Len(statements)
    /\ second' = [second EXCEPT !.pc = "done"]
    /\ UNCHANGED <<tokens, lexVars, parseVars, typeVars, semVars, scopeVars>>

TwinNext == AnalyzeNext \/ SecondNew \/ SecondBegin \/ SecondStep \/ SecondEnd

TwinSpec == AnalyzeInit /\ [][TwinNext]_vars

C18_AnalyzeAlwaysReturns ==
    /\ analyzepc \in {"idle", "new", "visit", "done"}
    /\ analyzepc = "done" => next_statement = Len(statements) + 1

\* the type of each of Conditions on a new analyzer: null is typed as literal
\* inference types the token the lexer emits for it, len by the builtin's symbol
ConditionType(c) ==
    CASE c = "1" -> IntType
      [] c = "1.5" -> FloatType
      [] c = "'s'" -> StringType
      [] c \in {"true", "1 < 2"} -> BoolType
      [] c = "null" -> InferLiteralType("BOOLEAN", NoneV)
      [] c = "u" -> UnknownType
      [] c = "len" -> FunctionObject(2)
      [] c = "len(1)" -> IntType

\* the diagnostics C19 expects of ConditionProgram(form, c): that of the condition
\* itself (u is undefined), the condition-must-be-boolean one, those of the
\* statements of the branches or of the body (p and q are undefined)
ConditionDiagnostics(form, c) ==
    (IF c = "u"
     THEN <<SemanticError("undefined identifier", 1, IF form = "while" THEN 8 ELSE 5)>>
     ELSE <<>>)
    \o (IF IsPrim(ConditionType(c)) /\ ConditionType(c) \notin {BoolType, UnknownType}
        THEN <<SemanticError(IF form = "while" THEN "while condition must be boolean"
                             ELSE "condition must be boolean", 1, 1)>>
        ELSE <<>>)
    \o <<SemanticError("undefined identifier", 1,
                       Len(c) + (IF form = "while" THEN 10 ELSE 7))>>
    \o (IF form = "if else"
        THEN <<SemanticError("undefined identifier", 1, Len(c) + 15)>>
        ELSE <<>>)

(***************************************************************************)
(* C19: for an if or a while statement a condition-must-be-boolean         *)
(* diagnostic is appended exactly when the condition's type is a primitive *)
(* other than Bool and Unknown; in every case the then and else branches   *)
(* or the loop body are analysed afterwards.                               *)
(***************************************************************************)
C19_ConditionDiagnostic ==
    analyzepc = "done"
    => \A form \in ConditionForms, c \in Conditions :
          source = ConditionProgram(form, c)
          => analyzer.error_list = ConditionDiagnostics(form, c)

C19_Witness ==
    /\ analyzepc = "done"
    /\ source = ConditionProgram("if else", "'s'")
    /\ Len(analyzer.error_list) = 3
    /\ analyzer.error_list[1] = SemanticError("condition must be boolean", 1, 1)

\* the line and the column of the i-th character of the source, from its text
LineOf(i) == 1 + Cardinality({j \in 1..(i - 1) : source[j] = "\n"})

ColumnOf(i) ==
    LET newlines == {j \in 1..(i - 1) : source[j] = "\n"} IN
    IF newlines = {} THEN i
    ELSE i - (CHOOSE j \in newlines : \A k \in newlines : k <= j)

\* the index of the character the next token starts at
TokenStart == SkipWhitespace(Cursor(position, line, column)).position + 1

\* the last index of the digit run that starts at index i
RunEnd(i) ==
    CHOOSE j \in i..Len(source) :
        /\ \A k \in i..j : IsDigit(source[k])
        /\ j = Len(source) \/ ~IsDigit(source[j + 1])

\* at index i starts a digit run followed by a '.' that no digit follows
DanglingDotAt(i) ==
    /\ i <= Len(source)
    /\ IsDigit(source[i])
    /\ RunEnd(i) < Len(source)
    /\ source[RunEnd(i) + 1] = "."
    /\ RunEnd(i) + 1 = Len(source) \/ ~IsDigit(source[RunEnd(i) + 2])

\* the step at such a run: an Integer token of the digits, the dot is next
DanglingDotStep ==
    (lexpc = "run" /\ DanglingDotAt(TokenStart))
    => /\ lexpc' = "run"
       /\ position' = RunEnd(TokenStart)
       /\ tokens' = Append(tokens,
                           Token("INTEGER",
                                 IntV(IntOf(SubSeq(source, TokenStart, RunEnd(TokenStart)))),
                                 LineOf(TokenStart), ColumnOf(TokenStart)))

\* the step after it: a Dot token at the dot's own line and column
DotAfterIntegerStep ==
    (/\ lexpc = "run"
     /\ tokens # <<>>
     /\ tokens[Len(tokens)].type = "INTEGER"
     /\ position < Len(source)
     /\ source[position + 1] = ".")
    => /\ lexpc' = "run"
       /\ position' = position + 1
       /\ tokens' = Append(tokens,
                           Token("DOT", StrV("."), LineOf(position + 1),
                                 ColumnOf(position + 1)))

(***************************************************************************)
(* C20: a digit run followed by a '.' that no digit follows is tokenized   *)
(* as an Integer token of the digits and then a Dot token at the dot's own *)
(* line and column, no character lost or read twice; 123.toString gives    *)
(* exactly Integer(123), Dot, Identifier(toString), EndOfFile.             *)
(***************************************************************************)
C20_DanglingDot ==
    /\ [][DanglingDotStep /\ DotAfterIntegerStep]_vars
    /\ []((lexpc = "done" /\ source = Chars("123.toString"))
          => tokens = <<Token("INTEGER", IntV(123), 1, 1),
                        Token("DOT", StrV("."), 1, 4),
                        Token("IDENTIFIER", StrV("toString"), 1, 5),
                        Token("EOF", NoneV, 1, 13)>>)

\* the number of backslashes that immediately precede index j, back to index i
RECURSIVE BackslashesBefore(_, _)
BackslashesBefore(i, j) ==
    IF j - 1 > i /\ source[j - 1] = "\\" THEN 1 + BackslashesBefore(i, j - 1) ELSE 0

\* the string literal opened at index i has a closing quote: the same quote
\* character at a later index, not escaped by a backslash
ClosedFrom(i) ==
    \E j \in (i + 1)..Len(source) :
        /\ source[j] = source[i]
        /\ BackslashesBefore(i, j) % 2 = 0

\* the next token starts at a quote whose string literal is never closed
UnterminatedStringNext ==
    /\ lexpc = "run"
    /\ TokenStart <= Len(source)
    /\ source[TokenStart] \in {"\"", "'"}
    /\ ~ClosedFrom(TokenStart)

(***************************************************************************)
(* C21: a string literal whose closing quote is not reached before the end *)
(* of input, input that ends right after a backslash inside the string     *)
(* included, makes next_token raise a LexerError; no String token is       *)
(* returned for it.                                                        *)
(***************************************************************************)
C21_UnterminatedString ==
    [][UnterminatedStringNext => (lexpc' = "LexerError" /\ tokens' = tokens)]_vars

C21_Witness ==
    /\ lexpc = "LexerError"
    /\ source = <<"\"", "a", "\\">>
    /\ tokens = <<>>

(***************************************************************************)
(* next_token called directly, also after it has returned EndOfFile.  Here *)
(* tokens is the caller's record of what the calls returned, and lexpc is  *)
(* "done" once EndOfFile has been returned.                                *)
(***************************************************************************)
EndOfFileReturns == Cardinality({i \in 1..Len(tokens) : IsEndOfFile(tokens[i])})

\* a return that moves the cursor on by one column at the end of input
ReturnedPastEnd(r) ==
    /\ position' = r.st.position
    /\ line' = r.st.line
    /\ column' = IF IsEndOfFile(r.tok) THEN r.st.column + 1 ELSE r.st.column
    /\ tokens' = Append(tokens, r.tok)
    /\ lexpc' = IF IsEndOfFile(r.tok) THEN "done" ELSE "run"

\* next_token returns r.tok and leaves the lexer at r.st
Returned(r) ==
    /\ position' = r.st.position
    /\ line' = r.st.line
    /\ column' = r.st.column
    /\ tokens' = Append(tokens, r.tok)
    /\ lexpc' = IF IsEndOfFile(r.tok) THEN "done" ELSE "run"

NextTokenCall ==
    /\ lexpc \in {"run", "done"}
    /\ EndOfFileReturns <= MaxRepeats
    /\ LET r == NextToken(Cursor(position, line, column)) IN
        IF r.status = "ok"
        THEN Returned(r)
        ELSE /\ position' = r.st.position
             /\ line' = r.st.line
             /\ column' = r.st.column
             /\ tokens' = tokens
             /\ lexpc' = r.status
    /\ UNCHANGED <<source, parseVars, typeVars, semVars, otherVars>>

NextTokenNext == NextTokenCall

NextTokenSpec == LexInit /\ [][NextTokenNext]_vars

(***************************************************************************)
(* C22: once next_token has returned EndOfFile, every later call on the    *)
(* same lexer returns EndOfFile again with the same line and column, and   *)
(* the lexer's position, line and column do not change.                    *)
(***************************************************************************)
C22_EndOfFileStable ==
    /\ [][lexpc = "done"
          => /\ lexpc' = "done"
             /\ tokens' = Append(tokens, tokens[Len(tokens)])
             /\ <<position, line, column>>' = <<position, line, column>>]_vars
    /\ [](\A i \in 1..Len(tokens) : \A j \in i..Len(tokens) :
            IsEndOfFile(tokens[i]) => tokens[j] = tokens[i])

C22_Witness ==
    /\ lexpc = "done"
    /\ source = <<"a", "\n", " ">>
    /\ EndOfFileReturns = 3
    /\ tokens[Len(tokens)] = Token("EOF", NoneV, 2, 2)

\* with the cursor at cur, recovery that began at start may stop: the end of
\* input, a token that begins a statement, or a semicolon passed since start
SyncPoint(cur, start) ==
    \/ AtEnd(cur)
    \/ PeekToken(cur).type \in StatementStarts
    \/ cur > start /\ tokens[cur].type = "SEMICOLON"

FirstSyncPoint(start) ==
    CHOOSE cur \in start..Len(tokens) :
        /\ SyncPoint(cur, start)
        /\ \A earlier \in start..(cur - 1) : ~SyncPoint(earlier, start)

(***************************************************************************)
(* C23: panic-mode recovery stops at the first synchronisation point at or *)
(* after the offending token: it discards tokens only until it has passed  *)
(* a semicolon or the current token is func, if, while, return or the end  *)
(* of input, so a token that begins a statement, the offending token       *)
(* included, is never discarded.                                           *)
(***************************************************************************)
C23_RecoveryStopsAtFirstSyncPoint ==
    \A n \in 1..Len(recoveries) :
        \* past the EndOfFile token the cursor is still at the end of input
        /\ \/ recoveries[n].stop = FirstSyncPoint(recoveries[n].start)
           \/ AtEnd(recoveries[n].stop) /\ AtEnd(FirstSyncPoint(recoveries[n].start))
        /\ \A cur \in recoveries[n].start..(recoveries[n].stop - 1) :
              PeekToken(cur).type \notin StatementStarts

(***************************************************************************)
(* C24: one malformed statement causes exactly one recovery: when it is    *)
(* the body of an if or of a while, or the branch after else,              *)
(* synchronisation runs once for it, and the well-formed statement that    *)
(* follows the malformed one's semicolon is parsed and is in the AST.      *)
(***************************************************************************)
C24_OneRecoveryPerStatement ==
    \A opener \in BodyOpeners :
        (parsepc = "done" /\ tokens = TokensOf(MalformedBody(opener)))
        => /\ Len(recoveries) = 1
           /\ statements # <<>>
           /\ statements[Len(statements)].kind = "ExpressionStatement"
           /\ statements[Len(statements)].expression.kind = "Identifier"
           /\ statements[Len(statements)].expression.name = "a"

\* the type of the first return statement met in a body of ReturnBodies
FirstReturnType(body) ==
    CASE body \in {"", "return;"} -> VoidType
      [] body \in {"return 1;", "return 1; return 's';"} -> IntType
      [] body = "return 's';" -> StringType
      [] body = "if (true) return 1.5;" -> FloatType
      [] body \in {"return u;", "return f();"} -> UnknownType

\* the messages of the diagnostics of ReturnProgram(body): the recursive call
\* x = f() declares x with type Unknown, so x = 's' in the body adds none; the
\* call y = f() after the declaration has the return type, which y = 's' meets
ReturnMessages(body) ==
    (CASE body = "return 1; return 's';" -> <<"inconsistent return type">>
       [] body = "return u;" -> <<"undefined identifier">>
       [] OTHER -> <<>>)
    \o <<"function already defined", "not a variable">>
    \o (IF FirstReturnType(body) \in {StringType, UnknownType}
        THEN <<>> ELSE <<"incompatible types">>)

Messages(error_list) == [i \in 1..Len(error_list) |-> error_list[i].message]

(***************************************************************************)
(* C25: a function symbol's return type is Unknown from its definition     *)
(* until its body has been fully analysed, so a recursive call inside the  *)
(* body has type Unknown; when the visit of the declaration ends it is set *)
(* once to the type of the first return statement met in the body, or to   *)
(* Void if the body has no return, and it does not change afterwards.      *)
(***************************************************************************)
C25_ReturnTypeSetOnce ==
    /\ [](\A body \in ReturnBodies :
            (analyzepc = "done" /\ source = ReturnProgram(body))
            => /\ ReturnTypeOf("f") = FirstReturnType(body)
               /\ Messages(analyzer.error_list) = ReturnMessages(body))
    /\ [][(source \in ReturnPrograms /\ analyzepc = "visit" /\ next_statement >= 2)
          => /\ ReturnTypeOf("f") = FirstReturnType(CHOOSE body \in ReturnBodies :
                                                      source = ReturnProgram(body))
             /\ ReturnTypeOf("f")' = ReturnTypeOf("f")]_vars

C25_Witness ==
    /\ analyzepc = "done"
    /\ source = ReturnProgram("return 1; return 's';")
    /\ ReturnTypeOf("f") = IntType
    /\ Len(analyzer.error_list) = 4

\* the type of each of AssignedValues
AssignedType(value) ==
    CASE value = "1" -> IntType
      [] value = "'s'" -> StringType
      [] value = "1.5" -> FloatType
      [] value = "u" -> UnknownType

\* a symbol of the type takes a value of value_type without a diagnostic
Accepts(type, value_type) ==
    \/ type = UnknownType
    \/ value_type = type
    \/ type = FloatType /\ value_type = IntType

\* the type of a symbol of the type after the value is assigned to it
TypeAfter(type, value) == IF type = UnknownType THEN AssignedType(value) ELSE type

\* the messages of the diagnostics of the assignments of a run from its i-th on
\* to a symbol of the type
RECURSIVE RunMessages(_, _, _)
RunMessages(run, i, type) ==
    IF i > Len(run) THEN <<>>
    ELSE (IF run[i] = "u" THEN <<"undefined identifier">> ELSE <<>>)
         \o (IF Accepts(type, AssignedType(run[i])) THEN <<>> ELSE <<"incompatible types">>)
         \o RunMessages(run, i + 1, TypeAfter(type, run[i]))

\* the variable symbols of the global scope
GlobalVariable(an, name) ==
    /\ an.scope_manager.scope_stack # <<>>
    /\ LookupSymbol(an.scope_manager, name) # NoSymbol
    /\ LookupSymbol(an.scope_manager, name).kind \in {"variable", "parameter"}

(***************************************************************************)
(* C26: across any sequence of assignments the type of a variable or       *)
(* parameter symbol changes only from Unknown to the type of the assigned  *)
(* value: once it is not Unknown no later assignment changes it, an        *)
(* incompatible value adds one diagnostic and leaves the type as it was;   *)
(* the initialized flag never goes from true back to false.                *)
(***************************************************************************)
C26_TypeRefinedOnce ==
    /\ [](\A run \in AssignmentRuns :
            /\ (analyzepc = "done" /\ source = VariableProgram(run))
               => /\ Messages(analyzer.error_list) = RunMessages(run, 1, UnknownType)
                  /\ LookupSymbol(analyzer.scope_manager, "x").type =
                        TypeAfter(TypeAfter(TypeAfter(UnknownType, run[1]), run[2]), run[3])
                  /\ LookupSymbol(analyzer.scope_manager, "x").initialized
            /\ (analyzepc = "done" /\ source = ParameterProgram(run))
               => Messages(analyzer.error_list) = RunMessages(run, 1, UnknownType))
    /\ [][\A name \in {"x", "y", "a"} :
            (analyzepc = "visit" /\ GlobalVariable(analyzer, name))
            => /\ GlobalVariable(analyzer', name)
               /\ LookupSymbol(analyzer.scope_manager, name).type
                    \in {UnknownType, LookupSymbol(analyzer'.scope_manager, name).type}
               /\ LookupSymbol(analyzer.scope_manager, name).initialized
                    => LookupSymbol(analyzer'.scope_manager, name).initialized]_vars

C26_Witness ==
    /\ analyzepc = "done"
    /\ source = VariableProgram(<<"u", "1", "'s'">>)
    /\ Messages(analyzer.error_list) = <<"undefined identifier", "incompatible types">>
    /\ LookupSymbol(analyzer.scope_manager, "x").type = IntType

(***************************************************************************)
(* C27: visiting a function declaration leaves the analyzer's              *)
(* current-function-return-type slot equal to its value before the visit;  *)
(* the return statements of a nested function declaration never set or     *)
(* change the inferred return type of the enclosing function.  The slot is *)
(* compared where the visit returns.                                       *)
(***************************************************************************)
C27_ReturnTypeSlotRestored ==
    /\ [][(/\ analyzepc = "visit"
           /\ next_statement <= Len(statements)
           /\ statements[next_statement].kind = "FunctionDeclaration"
           /\ analyzepc' = "visit")
          => analyzer'.current_function_return_type
                = analyzer.current_function_return_type]_vars
    /\ [](\A before \in OuterReturns, inner \in InnerReturns, after \in OuterReturns :
            (analyzepc = "done" /\ source = NestedProgram(before, inner, after))
            => /\ ReturnTypeOf("f") = IF before = "" /\ after = ""
                                      THEN VoidType ELSE IntType
               /\ analyzer.current_function_return_type = BoolType
               /\ Messages(analyzer.error_list) = <<"inconsistent return type">>)

C27_Witness ==
    /\ analyzepc = "done"
    /\ source = NestedProgram("", "return 's';", "return 1;")
    /\ ReturnTypeOf("f") = IntType
    /\ analyzer.current_function_return_type = BoolType

(***************************************************************************)
(* C28: a use of an unresolved identifier adds exactly one diagnostic in   *)
(* total: its result type is Unknown, and the enclosing construct, an      *)
(* assignment to an already typed variable, a binary or unary operation, a *)
(* call that uses it as callee, or an if or while condition, adds no       *)
(* further diagnostic on its account.                                      *)
(***************************************************************************)
C28_UnresolvedOneDiagnostic ==
    (analyzepc = "done" /\ source \in UnresolvedPrograms)
    => Messages(analyzer.error_list) = <<"undefined identifier">>

\* parse is scheduled until it returns or raises
ParseFairness == []<>(parsepc \notin {"start", "loop"}) \/ []<><<ParseNext>>_vars

ParseLiveSpec == ParseSpec /\ ParseFairness

\* a call of parse_statement with the cursor at cur, the current token not
\* EndOfFile, leaves the cursor further on
StatementAdvances(cur) == AtEnd(cur) \/ ParseStatement(cur).cur > cur

(***************************************************************************)
(* C29: parse terminates on every token sequence that ends in EndOfFile:   *)
(* each call of parse_statement made while the current token is not        *)
(* EndOfFile moves the cursor forward by at least one token, whether it    *)
(* returns a statement or recovers from an error, and the cursor never     *)
(* moves backwards.                                                        *)
(***************************************************************************)
C29_ParseTerminates ==
    /\ <>(parsepc \notin {"start", "loop"})
    \* the tokens never change: every cursor is tried once, before parse begins
    /\ [](parsepc = "start"
          => \A cur \in 0..(Len(tokens) - 1) : StatementAdvances(cur))
    /\ [][current' >= current]_vars

C29_Witness ==
    /\ parsepc = "done"
    /\ Len(statements) >= 1
    /\ Len(recoveries) >= 1
    /\ recoveries[1].stop > recoveries[1].start
    /\ AtEnd(current)

Depth(an) == Len(an.scope_manager.scope_stack)

(***************************************************************************)
(* C30: the analyzer's scope pushes and pops are balanced: visiting any    *)
(* node leaves the scope-stack depth equal to its depth before the visit,  *)
(* also when a function declaration is rejected as a duplicate; the global *)
(* scope is never popped during analysis; after analyze returns the depth  *)
(* is 1.  The depths are compared where a visit returns: each statement of *)
(* the program is visited at depth 1 and leaves depth 1.                   *)
(***************************************************************************)
C30_ScopesBalanced ==
    /\ [](analyzepc # "idle"
          => /\ Depth(analyzer) >= 1
             /\ analyzer.scope_manager.scope_stack[1].id
                    = analyzer.scope_manager.global_scope)
    /\ [](analyzepc \in {"new", "visit", "done"} => Depth(analyzer) = 1)
    /\ [][(analyzepc = "visit" /\ analyzepc' = "visit")
          => /\ Depth(analyzer') = Depth(analyzer)
             /\ analyzer'.scope_manager.scope_stack[1].id
                    = analyzer.scope_manager.scope_stack[1].id]_vars

C30_Witness ==
    /\ analyzepc = "done"
    /\ source = ReturnProgram("if (true) return 1.5;")
    /\ Depth(analyzer) = 1
    /\ analyzer.scope_manager.created >= 2
    /\ \E i \in 1..Len(analyzer.error_list) :
          analyzer.error_list[i].message = "function already defined"

====
